---------------------------- MODULE Spec2Model ----------------------------
(***************************************************************************)
(* The ticket pipeline of the customer-support system:                     *)
(*   TicketAnalysisAgent.analyze_ticket   (ticket_analysis_agent.py)       *)
(*   ResponseAgent.generate_response      (response_agent.py)              *)
(*   TicketProcessor.process_ticket       (ticket_processor.py)            *)
(*   identify_urgency_indicators          (helpers.py)                     *)
(*                                                                         *)
(* Text is modelled character by character: a Python str is a sequence of  *)
(* one-character strings, so that "in", lower(), count(), replace() and    *)
(* the regular expressions are computed as Python computes them.           *)
(***************************************************************************)
EXTENDS Integers, Sequences, FiniteSets, TLC

\* ------------------------------------------------------------------------
\* Bounds of the model
\* ------------------------------------------------------------------------

\* A ticket body is at most MaxFrags lines drawn from Fragments.
MaxFrags == 2

\* A call of process_ticket takes at most MaxElapsed ticks of the wall clock.
MaxElapsed == 1

\* ------------------------------------------------------------------------
\* Python values and str operations
\* ------------------------------------------------------------------------

\* A value that is not a str (None, an int, ...): no str method applies to it.
NoneValue == <<"<None>">>

IsStr(x) == x # NoneValue

Whitespace == {" ", "\n", "\t"}

UpperToLower ==
    ("A" :> "a") @@ ("B" :> "b") @@ ("C" :> "c") @@ ("D" :> "d") @@ ("E" :> "e") @@
    ("F" :> "f") @@ ("G" :> "g") @@ ("H" :> "h") @@ ("I" :> "i") @@ ("J" :> "j") @@
    ("K" :> "k") @@ ("L" :> "l") @@ ("M" :> "m") @@ ("N" :> "n") @@ ("O" :> "o") @@
    ("P" :> "p") @@ ("Q" :> "q") @@ ("R" :> "r") @@ ("S" :> "s") @@ ("T" :> "t") @@
    ("U" :> "u") @@ ("V" :> "v") @@ ("W" :> "w") @@ ("X" :> "x") @@ ("Y" :> "y") @@
    ("Z" :> "z")

\* str.lower()
str_lower(s) ==
    LET lowered == [i \in 1..Len(s) |->
                       IF s[i] \in DOMAIN UpperToLower THEN UpperToLower[s[i]] ELSE s[i]]
    IN  SubSeq(lowered, 1, Len(s))

\* s[i:].startswith(w), i counted from 1
starts_at(s, i, w) ==
    /\ i + Len(w) - 1 <= Len(s)
    /\ SubSeq(s, i, i + Len(w) - 1) = w

\* w in s
str_in(w, s) == \E i \in 1..(Len(s) - Len(w) + 1) : SubSeq(s, i, i + Len(w) - 1) = w

\* any(w in s for w in words)
any_in(words, s) == \E k \in 1..Len(words) : str_in(words[k], s)

\* s.count(c) for a single character c
str_count(s, c) == Cardinality({i \in 1..Len(s) : s[i] = c})

\* The least element of a non-empty set of integers.
least(S) == CHOOSE i \in S : \A k \in S : i <= k

\* s.strip()
str_strip(s) ==
    LET keep == {i \in 1..Len(s) : s[i] \notin Whitespace}
    IN  IF keep = {} THEN <<>>
        ELSE SubSeq(s, least(keep), CHOOSE i \in keep : \A k \in keep : k <= i)

\* s.replace(old, new): every non-overlapping occurrence, left to right
\* (old is never empty here).
RECURSIVE str_replace(_, _, _)
str_replace(s, old, new) ==
    LET found == {i \in 1..(Len(s) - Len(old) + 1) : SubSeq(s, i, i + Len(old) - 1) = old}
    IN  IF found = {} THEN s
        ELSE SubSeq(s, 1, least(found) - 1) \o new
                 \o str_replace(SubSeq(s, least(found) + Len(old), Len(s)), old, new)

\* ------------------------------------------------------------------------
\* ticket_analysis_agent.py
\* ------------------------------------------------------------------------

\* class Priority(Enum)
LOW == 1
MEDIUM == 2
HIGH == 3
URGENT == 4

\* TicketAnalysisAgent.__init__: self.urgency_keywords
urgency_keywords ==
    << <<"u","r","g","e","n","t">>, <<"a","s","a","p">>, <<"i","m","m","e","d","i","a","t","e","l","y">>, <<"e","m","e","r","g","e","n","c","y">>, <<"c","r","i","t","i","c","a","l">>,
       <<"a","s"," ","s","o","o","n"," ","a","s"," ","p","o","s","s","i","b","l","e">>, <<"r","i","g","h","t"," ","a","w","a","y">>, <<"t","i","m","e"," ","s","e","n","s","i","t","i","v","e">> >>

\* The VIP vocabulary of helpers.estimate_business_impact in place of the
\* agent's own: no president, no manager, "head of" for "head".
vip_roles_OfHelpers ==
    << <<"c","e","o">>, <<"c","f","o">>, <<"c","t","o">>, <<"d","i","r","e","c","t","o","r">>, <<"v","p">>, <<"v","i","c","e"," ","p","r","e","s","i","d","e","n","t">>, <<"h","e","a","d"," ","o","f">>,
       <<"c","h","i","e","f">> >>

\* TicketAnalysisAgent.__init__: self.vip_roles
vip_roles ==
    << <<"c","e","o">>, <<"c","f","o">>, <<"c","t","o">>, <<"d","i","r","e","c","t","o","r">>, <<"v","p">>, <<"v","i","c","e"," ","p","r","e","s","i","d","e","n","t">>,
       <<"p","r","e","s","i","d","e","n","t">>, <<"h","e","a","d">>, <<"c","h","i","e","f">>, <<"m","a","n","a","g","e","r">> >>

\* The keyword lists of the categorization logic, in the order they are tested.
access_words == << <<"a","c","c","e","s","s">>, <<"l","o","g","i","n">>, <<"p","e","r","m","i","s","s","i","o","n">>, <<"4","0","3">>, <<"d","a","s","h","b","o","a","r","d">> >>

billing_words ==
    << <<"b","i","l","l">>, <<"i","n","v","o","i","c","e">>, <<"p","a","y","m","e","n","t">>, <<"c","h","a","r","g","e">>, <<"p","r","i","c","i","n","g">>, <<"c","o","s","t">>, <<"s","u","b","s","c","r","i","p","t","i","o","n">> >>

feature_words ==
    << <<"f","e","a","t","u","r","e">>, <<"e","n","h","a","n","c","e","m","e","n","t">>, <<"i","m","p","r","o","v","e","m","e","n","t">>, <<"a","d","d">>, <<"s","u","g","g","e","s","t","i","o","n">>, <<"r","o","a","d","m","a","p">> >>

\* The feature keywords tested before the billing keywords.
categorize_FeatureFirst(content) ==
    IF any_in(access_words, content) THEN "access"
    ELSE IF any_in(feature_words, content) THEN "feature"
    ELSE IF any_in(billing_words, content) THEN "billing"
    ELSE "technical"

\* if / elif / elif / else over the lower-cased content
categorize(content) ==
    IF any_in(access_words, content) THEN "access"
    ELSE IF any_in(billing_words, content) THEN "billing"
    ELSE IF any_in(feature_words, content) THEN "feature"
    ELSE "technical"

required_expertise_of(category) ==
    CASE category = "access" -> << "access control", "permissions", "authentication" >>
      [] category = "billing" -> << "billing", "accounting", "finance" >>
      [] category = "feature" -> << "product management", "development" >>
      [] OTHER -> << "technical support", "troubleshooting" >>

suggested_response_type_of(category) ==
    CASE category = "access" -> "access_issue"
      [] category = "billing" -> "billing_inquiry"
      [] category = "feature" -> "feature_request"
      [] OTHER -> "technical_issue"

\* if marker in content: points.append(point)
point_if(cond, point) == IF cond THEN << point >> ELSE << >>

\* An extractor without the fallback point.
points_or_NoFallback(points, fallback) == points

\* if len(points) == 0: points.append(fallback)
points_or(points, fallback) == IF Len(points) = 0 THEN << fallback >> ELSE points

_extract_access_key_points(content) ==
    points_or(
        point_if(str_in(<<"d","a","s","h","b","o","a","r","d">>, content), <<"C","a","n","n","o","t"," ","a","c","c","e","s","s"," ","d","a","s","h","b","o","a","r","d">>)
        \o point_if(str_in(<<"4","0","3">>, content), <<"R","e","c","e","i","v","i","n","g"," ","4","0","3"," ","e","r","r","o","r">>)
        \o point_if(str_in(<<"p","a","s","s","w","o","r","d">>, content), <<"P","a","s","s","w","o","r","d"," ","i","s","s","u","e">>)
        \o point_if(str_in(<<"l","o","g","i","n">>, content), <<"L","o","g","i","n"," ","p","r","o","b","l","e","m">>)
        \o point_if(str_in(<<"p","e","r","m","i","s","s","i","o","n">>, content), <<"P","e","r","m","i","s","s","i","o","n"," ","p","r","o","b","l","e","m">>),
        <<"G","e","n","e","r","a","l"," ","a","c","c","e","s","s"," ","i","s","s","u","e">>)

_extract_billing_key_points(content) ==
    points_or(
        point_if(str_in(<<"i","n","v","o","i","c","e">>, content), <<"I","n","v","o","i","c","e"," ","q","u","e","s","t","i","o","n">>)
        \o point_if(str_in(<<"p","a","y","m","e","n","t">>, content), <<"P","a","y","m","e","n","t"," ","i","s","s","u","e">>)
        \o point_if(str_in(<<"c","h","a","r","g","e">>, content), <<"C","h","a","r","g","e"," ","i","n","q","u","i","r","y">>)
        \o point_if(str_in(<<"r","e","f","u","n","d">>, content), <<"R","e","f","u","n","d"," ","r","e","q","u","e","s","t">>)
        \o point_if(str_in(<<"c","y","c","l","e">>, content) \/ str_in(<<"p","r","o","-","r","a","t">>, content),
                    <<"B","i","l","l","i","n","g"," ","c","y","c","l","e"," ","q","u","e","s","t","i","o","n">>),
        <<"G","e","n","e","r","a","l"," ","b","i","l","l","i","n","g"," ","q","u","e","s","t","i","o","n">>)

_extract_feature_key_points(content) ==
    points_or(
        point_if(str_in(<<"r","e","q","u","e","s","t">>, content), <<"F","e","a","t","u","r","e"," ","r","e","q","u","e","s","t">>)
        \o point_if(str_in(<<"s","u","g","g","e","s","t">>, content), <<"F","e","a","t","u","r","e"," ","s","u","g","g","e","s","t","i","o","n">>)
        \o point_if(str_in(<<"a","d","d">>, content), <<"A","d","d","i","t","i","o","n"," ","r","e","q","u","e","s","t">>)
        \o point_if(str_in(<<"i","m","p","r","o","v","e">>, content), <<"I","m","p","r","o","v","e","m","e","n","t"," ","s","u","g","g","e","s","t","i","o","n">>)
        \o point_if(str_in(<<"r","o","a","d","m","a","p">>, content), <<"R","o","a","d","m","a","p"," ","i","n","q","u","i","r","y">>),
        <<"G","e","n","e","r","a","l"," ","f","e","a","t","u","r","e"," ","r","e","q","u","e","s","t">>)

_extract_technical_key_points(content) ==
    points_or(
        point_if(str_in(<<"e","r","r","o","r">>, content), <<"E","r","r","o","r"," ","r","e","p","o","r","t","e","d">>)
        \o point_if(str_in(<<"c","r","a","s","h">>, content), <<"S","y","s","t","e","m"," ","c","r","a","s","h">>)
        \o point_if(str_in(<<"b","u","g">>, content), <<"B","u","g"," ","r","e","p","o","r","t">>)
        \o point_if(str_in(<<"s","l","o","w">>, content), <<"P","e","r","f","o","r","m","a","n","c","e"," ","i","s","s","u","e">>)
        \o point_if(str_in(<<"n","o","t"," ","w","o","r","k","i","n","g">>, content), <<"F","u","n","c","t","i","o","n","a","l","i","t","y"," ","i","s","s","u","e">>),
        <<"T","e","c","h","n","i","c","a","l"," ","i","s","s","u","e">>)

extract_key_points(category, content) ==
    CASE category = "access" -> _extract_access_key_points(content)
      [] category = "billing" -> _extract_billing_key_points(content)
      [] category = "feature" -> _extract_feature_key_points(content)
      [] OTHER -> _extract_technical_key_points(content)

\* for keyword in self.urgency_keywords: if keyword in content: append
RECURSIVE keywords_in(_, _, _)
keywords_in(words, k, content) ==
    IF k > Len(words) THEN << >>
    ELSE point_if(str_in(words[k], content), words[k]) \o keywords_in(words, k + 1, content)

_extract_urgency_indicators(content) ==
    keywords_in(urgency_keywords, 1, content)
    \o point_if(str_count(content, "!") >= 3, <<"m","u","l","t","i","p","l","e"," ","e","x","c","l","a","m","a","t","i","o","n"," ","m","a","r","k","s">>)
    \o point_if(str_in(<<"t","o","d","a","y">>, content) \/ str_in(<<"n","o","w">>, content)
                    \/ str_in(<<"i","m","m","e","d","i","a","t","e","l","y">>, content),
                <<"i","m","m","e","d","i","a","t","e"," ","t","i","m","e","f","r","a","m","e">>)

_assess_business_impact(content) ==
    IF str_in(<<"r","e","v","e","n","u","e">>, content) \/ str_in(<<"s","a","l","e","s">>, content)
    THEN <<"R","e","v","e","n","u","e"," ","i","m","p","a","c","t">>
    ELSE IF str_in(<<"c","u","s","t","o","m","e","r">>, content)
            /\ (str_in(<<"c","a","n","n","o","t">>, content) \/ str_in(<<"u","n","a","b","l","e">>, content))
    THEN <<"C","u","s","t","o","m","e","r"," ","i","m","p","a","c","t">>
    ELSE IF str_in(<<"p","r","o","d","u","c","t","i","o","n">>, content) THEN <<"P","r","o","d","u","c","t","i","o","n"," ","i","m","p","a","c","t">>
    ELSE IF str_in(<<"d","e","a","d","l","i","n","e">>, content) THEN <<"D","e","a","d","l","i","n","e"," ","i","m","p","a","c","t">>
    ELSE IF str_in(<<"p","a","y","r","o","l","l">>, content) THEN <<"P","a","y","r","o","l","l"," ","p","r","o","c","e","s","s","i","n","g"," ","i","m","p","a","c","t">>
    ELSE << >>

negative_words ==
    << <<"c","a","n","n","o","t">>, <<"i","s","s","u","e">>, <<"p","r","o","b","l","e","m">>, <<"e","r","r","o","r">>, <<"f","a","i","l">>, <<"b","u","g">>, <<"b","r","o","k","e","n">>,
       <<"u","r","g","e","n","t">>, <<"b","a","d">>, <<"w","r","o","n","g">> >>

positive_words ==
    << <<"t","h","a","n","k">>, <<"p","l","e","a","s","e">>, <<"a","p","p","r","e","c","i","a","t","e">>, <<"g","o","o","d">>, <<"g","r","e","a","t">>, <<"w","o","r","k","i","n","g">> >>

\* sum(1 for word in words if word in content)
count_in(words, content) == Cardinality({k \in 1..Len(words) : str_in(words[k], content)})

\* The float (positive - negative) / total is kept as the fraction num/den;
\* 0.0 is 0/1.
_analyze_sentiment(content) ==
    LET negative_count == count_in(negative_words, content)
        positive_count == count_in(positive_words, content)
        total == negative_count + positive_count
    IN  IF total = 0 THEN [num |-> 0, den |-> 1]
        ELSE [num |-> positive_count - negative_count, den |-> total]

\* A dict is a function on the set of its keys; the empty dict is falsy.
truthy(customer_info) == DOMAIN customer_info # {}

\* Rule 1 with URGENT in place of HIGH.
urgency_rule_ToUrgent(priority, urgency_indicators) ==
    IF Len(urgency_indicators) > 0 THEN URGENT ELSE priority

\* Rule 1: urgency indicators raise the priority to at least HIGH.
urgency_rule(priority, urgency_indicators) ==
    IF Len(urgency_indicators) > 0 /\ priority < HIGH THEN HIGH ELSE priority

\* The test of rule 2 made on the assessed business impact instead.
critical_function_OfImpact(content) ==
    str_in(<<"p","a","y","r","o","l","l">>, str_lower(_assess_business_impact(content)))
        \/ str_in(<<"r","e","v","e","n","u","e">>, str_lower(_assess_business_impact(content)))
        \/ str_in(<<"c","a","n","n","o","t"," ","w","o","r","k">>, str_lower(_assess_business_impact(content)))

\* The test of rule 2, made on the lower-cased content.
critical_function(content) ==
    str_in(<<"p","a","y","r","o","l","l">>, content) \/ str_in(<<"r","e","v","e","n","u","e">>, content)
        \/ str_in(<<"c","a","n","n","o","t"," ","w","o","r","k">>, content)

\* Rule 2: a critical business function forces URGENT.
impact_rule(priority, content) == IF critical_function(content) THEN URGENT ELSE priority

\* Rule 3 calls customer_info["role"].lower(): it raises when the role is no str.
vip_rule_raises(customer_info) ==
    /\ truthy(customer_info)
    /\ "role" \in DOMAIN customer_info
    /\ ~IsStr(customer_info["role"])

is_vip(customer_info) ==
    /\ truthy(customer_info)
    /\ "role" \in DOMAIN customer_info
    /\ any_in(vip_roles, str_lower(customer_info["role"]))

\* Rule 3 without its comparison: a VIP role sets the priority to HIGH.
vip_rule_Unguarded(priority, customer_info) ==
    IF is_vip(customer_info) THEN HIGH ELSE priority

\* Rule 3: a VIP role raises the priority to at least HIGH.
vip_rule(priority, customer_info) ==
    IF is_vip(customer_info) /\ priority < HIGH THEN HIGH ELSE priority

\* Rule 4 without its comparison: the Enterprise plan sets the priority to MEDIUM.
enterprise_rule_Unguarded(priority, customer_info) ==
    IF /\ truthy(customer_info)
       /\ "plan" \in DOMAIN customer_info
       /\ customer_info["plan"] = <<"E","n","t","e","r","p","r","i","s","e">>
    THEN MEDIUM ELSE priority

\* Rule 4: the Enterprise plan raises the priority to at least MEDIUM.
enterprise_rule(priority, customer_info) ==
    IF /\ truthy(customer_info)
       /\ "plan" \in DOMAIN customer_info
       /\ customer_info["plan"] = <<"E","n","t","e","r","p","r","i","s","e">>
       /\ priority < MEDIUM
    THEN MEDIUM ELSE priority

\* TicketAnalysisAgent.analyze_ticket.  The result is [raised |-> TRUE, log]
\* when the call raises, else the TicketAnalysis; log is the priority after
\* the default and after each rule that ran.
analyze_ticket(ticket_content, customer_info) ==
    IF ~IsStr(ticket_content) THEN [raised |-> TRUE, log |-> << >>]
    ELSE
    LET content == str_lower(ticket_content)
        category == categorize(content)
        key_points == extract_key_points(category, content)
        urgency_indicators == _extract_urgency_indicators(content)
        p0 == MEDIUM
        p1 == urgency_rule(p0, urgency_indicators)
        p2 == impact_rule(p1, content)
        business_impact ==
            IF critical_function(content) THEN <<"C","r","i","t","i","c","a","l"," ","b","u","s","i","n","e","s","s"," ","f","u","n","c","t","i","o","n"," ","i","m","p","a","c","t","e","d">>
            ELSE _assess_business_impact(content)
        p3 == vip_rule(p2, customer_info)
        p4 == enterprise_rule(p3, customer_info)
    IN  IF vip_rule_raises(customer_info)
        THEN [raised |-> TRUE, log |-> << p0, p1, p2 >>]
        ELSE [raised |-> FALSE,
              log |-> << p0, p1, p2, p3, p4 >>,
              category |-> category,
              priority |-> p4,
              key_points |-> key_points,
              required_expertise |-> required_expertise_of(category),
              sentiment |-> _analyze_sentiment(content),
              urgency_indicators |-> urgency_indicators,
              business_impact |-> business_impact,
              suggested_response_type |-> suggested_response_type_of(category)]


\* ------------------------------------------------------------------------
\* helpers.py
\* ------------------------------------------------------------------------

\* identify_urgency_indicators: urgency_words
urgency_words ==
    << <<"u","r","g","e","n","t">>, <<"a","s","a","p">>, <<"e","m","e","r","g","e","n","c","y">>, <<"i","m","m","e","d","i","a","t","e","l","y">>, <<"c","r","i","t","i","c","a","l">>,
       <<"a","s"," ","s","o","o","n"," ","a","s"," ","p","o","s","s","i","b","l","e">>, <<"q","u","i","c","k","l","y">>, <<"r","i","g","h","t"," ","a","w","a","y">>, <<"u","r","g","e","n","t">>,
       <<"h","i","g","h","e","s","t"," ","p","r","i","o","r","i","t","y">>, <<"d","e","a","d","l","i","n","e">>, <<"s","o","s">>, <<"t","i","m","e"," ","s","e","n","s","i","t","i","v","e">> >>

Digits == {"0", "1", "2", "3", "4", "5", "6", "7", "8", "9"}

\* The greatest element of a non-empty set of integers.
greatest(S) == CHOOSE i \in S : \A k \in S : k <= i

\* The length of the first of the alternatives that text has at position i,
\* 0 when it has none: (?:a|b|c)
alternative_at(alternatives, text, i) ==
    LET hits == {a \in 1..Len(alternatives) : starts_at(text, i, alternatives[a])}
    IN  IF hits = {} THEN 0 ELSE Len(alternatives[least(hits)])

\* The last position of a match of by (?:today|tomorrow|this afternoon) that
\* starts at i, 0 when there is none.
by_phrase_end(text, i) ==
    LET n == alternative_at(<< <<"t","o","d","a","y">>, <<"t","o","m","o","r","r","o","w">>, <<"t","h","i","s"," ","a","f","t","e","r","n","o","o","n">> >>, text, i + 3)
    IN  IF starts_at(text, i, <<"b","y"," ">>) /\ n > 0 THEN i + 3 + n - 1 ELSE 0

\* The last position of a match of within \d+ (?:hour|minute|day) that starts
\* at i, 0 when there is none.
within_end(text, i) ==
    LET d == i + 7
        after == least({j \in d..(Len(text) + 1) : j > Len(text) \/ text[j] \notin Digits})
        n == alternative_at(<< <<"h","o","u","r">>, <<"m","i","n","u","t","e">>, <<"d","a","y">> >>, text, after + 1)
    IN  IF starts_at(text, i, <<"w","i","t","h","i","n"," ">>) /\ after > d /\ starts_at(text, after, << " " >>)
               /\ n > 0
        THEN after + n
        ELSE 0

\* The last position of a match of \s*(?:am|pm) that starts at p, 0 when there
\* is none.
am_pm_end(text, p) ==
    LET q == least({j \in p..(Len(text) + 1) : j > Len(text) \/ text[j] \notin Whitespace})
    IN  IF starts_at(text, q, <<"a","m">>) \/ starts_at(text, q, <<"p","m">>) THEN q + 1 ELSE 0

\* The last position of a match of (?::\d{2})?\s*(?:am|pm) that starts at p.
minutes_end(text, p) ==
    IF starts_at(text, p, << ":" >>) /\ p + 2 <= Len(text)
           /\ text[p + 1] \in Digits /\ text[p + 2] \in Digits
           /\ am_pm_end(text, p + 3) > 0
    THEN am_pm_end(text, p + 3)
    ELSE am_pm_end(text, p)

\* The last position of a match of \d{1,2}(?::\d{2})?\s*(?:am|pm) that starts
\* at d, 0 when there is none.
clock_end(text, d) ==
    IF d > Len(text) \/ text[d] \notin Digits THEN 0
    ELSE IF d + 1 <= Len(text) /\ text[d + 1] \in Digits /\ minutes_end(text, d + 2) > 0
    THEN minutes_end(text, d + 2)
    ELSE minutes_end(text, d + 1)

\* The last position of a match of need.*by.*\d{1,2}(?::\d{2})?\s*(?:am|pm)
\* that starts at i, 0 when there is none: both .* stay on the line and take
\* as much as they can.
need_by_end(text, i) ==
    LET line_end == least({j \in (i + 4)..(Len(text) + 1) :
                              j > Len(text) \/ text[j] = "\n"})
        clocks == {d \in (i + 6)..(line_end - 1) :
                      /\ clock_end(text, d) > 0
                      /\ \E b \in (i + 4)..(d - 2) : starts_at(text, b, <<"b","y">>)}
    IN  IF starts_at(text, i, <<"n","e","e","d">>) /\ clocks # {}
        THEN clock_end(text, greatest(clocks))
        ELSE 0

\* The last position of a match of time pattern p that starts at i.
time_pattern_end(p, text, i) ==
    CASE p = 1 -> by_phrase_end(text, i)
      [] p = 2 -> within_end(text, i)
      [] p = 3 -> need_by_end(text, i)

\* re.findall(pattern, lower_text) from position i on: the matches from left
\* to right, none overlapping another.
RECURSIVE findall_time_pattern(_, _, _)
findall_time_pattern(p, text, i) ==
    LET starts == {j \in i..Len(text) : time_pattern_end(p, text, j) > 0}
        first == least(starts)
    IN  IF starts = {} THEN << >>
        ELSE << SubSeq(text, first, time_pattern_end(p, text, first)) >>
                 \o findall_time_pattern(p, text, time_pattern_end(p, text, first) + 1)

\* helpers.identify_urgency_indicators(text)
identify_urgency_indicators(text) ==
    keywords_in(urgency_words, 1, str_lower(text))
    \o findall_time_pattern(1, str_lower(text), 1)
    \o findall_time_pattern(2, str_lower(text), 1)
    \o findall_time_pattern(3, str_lower(text), 1)
    \o point_if(str_in(<<"!","!","!">>, text) \/ str_in(<<"!","!">>, text), <<"m","u","l","t","i","p","l","e"," ","e","x","c","l","a","m","a","t","i","o","n"," ","m","a","r","k","s">>)

\* estimate_business_impact: high_impact_patterns.  A pattern
\* (?:a|b).*(?:c|d).*(?:e|f) is kept as the sequence of its alternations.
high_impact_patterns ==
    << << << <<"a","f","f","e","c","t","i","n","g">>, <<"i","m","p","a","c","t","i","n","g">> >>,
          << <<"r","e","v","e","n","u","e">>, <<"s","a","l","e","s">>, <<"c","u","s","t","o","m","e","r","s">>, <<"c","l","i","e","n","t","s">>, <<"u","s","e","r","s">> >> >>,
       << << <<"d","o","w","n">>, <<"u","n","a","v","a","i","l","a","b","l","e">>, <<"n","o","t"," ","w","o","r","k","i","n","g">> >>,
          << <<"p","r","o","d","u","c","t","i","o","n">>, <<"l","i","v","e">>, <<"c","u","s","t","o","m","e","r","-","f","a","c","i","n","g">> >> >>,
       << << <<"u","n","a","b","l","e"," ","t","o">>, <<"c","a","n","'","t">>, <<"c","a","n","n","o","t">> >>,
          << <<"p","r","o","c","e","s","s">>, <<"c","o","m","p","l","e","t","e">>, <<"f","i","n","i","s","h">> >>,
          << <<"p","a","y","r","o","l","l">>, <<"p","a","y","m","e","n","t">>, <<"t","r","a","n","s","a","c","t","i","o","n">>, <<"o","r","d","e","r">> >> >>,
       << << <<"b","l","o","c","k","i","n","g">>, <<"p","r","e","v","e","n","t","i","n","g">> >>,
          << <<"w","o","r","k">>, <<"p","r","o","g","r","e","s","s">>, <<"d","e","l","i","v","e","r","y">>, <<"d","e","p","l","o","y","m","e","n","t">> >> >>,
       << << <<"l","o","s","t">>, <<"l","o","s","i","n","g">> >>,
          << <<"m","o","n","e","y">>, <<"r","e","v","e","n","u","e">>, <<"s","a","l","e","s">>, <<"c","u","s","t","o","m","e","r","s">> >> >> >>

\* estimate_business_impact: medium_impact_patterns
medium_impact_patterns ==
    << << << <<"d","e","l","a","y","i","n","g">>, <<"s","l","o","w","i","n","g">> >>, << <<"w","o","r","k">>, <<"p","r","o","g","r","e","s","s">>, <<"p","r","o","c","e","s","s">> >> >>,
       << << <<"w","o","r","k","a","r","o","u","n","d">>, <<"a","l","t","e","r","n","a","t","i","v","e">> >>, << <<"a","v","a","i","l","a","b","l","e">>, <<"p","o","s","s","i","b","l","e">>, <<"e","x","i","s","t","s">> >> >>,
       << << <<"i","n","t","e","r","n","a","l">>, <<"t","e","a","m">> >>, << <<"a","f","f","e","c","t","e","d">>, <<"i","m","p","a","c","t","e","d">> >> >>,
       << << <<"i","n","c","o","n","v","e","n","i","e","n","t">>, <<"d","i","f","f","i","c","u","l","t">>, <<"c","h","a","l","l","e","n","g","i","n","g">> >> >> >>

\* estimate_business_impact: high_impact_roles
high_impact_roles ==
    << <<"c","e","o">>, <<"c","f","o">>, <<"c","t","o">>, <<"d","i","r","e","c","t","o","r">>, <<"v","p">>, <<"v","i","c","e"," ","p","r","e","s","i","d","e","n","t">>, <<"h","e","a","d"," ","o","f">>,
       <<"c","h","i","e","f">> >>

\* Where a match of .*(?:..).*(?:..) ends, for the alternations g, g+1, ... of
\* a pattern read from position j: the position after the match, 0 when there
\* is none.  Each .* stays on the line and takes as much as it can; at the
\* position it gives way the alternatives are tried in their order.
RECURSIVE rest_end(_, _, _, _)
rest_end(groups, g, text, j) ==
    IF g > Len(groups) THEN j
    ELSE
    LET line_end == least({p \in j..(Len(text) + 1) : p > Len(text) \/ text[p] = "\n"})
        fits(p, a) ==
            /\ starts_at(text, p, groups[g][a])
            /\ rest_end(groups, g + 1, text, p + Len(groups[g][a])) > 0
        places == {p \in j..line_end : \E a \in 1..Len(groups[g]) : fits(p, a)}
        p == greatest(places)
        a == least({b \in 1..Len(groups[g]) : fits(p, b)})
    IN  IF places = {} THEN 0
        ELSE rest_end(groups, g + 1, text, p + Len(groups[g][a]))

\* match.group(0) of re.search(pattern, text), NoneValue when nothing matches:
\* the match that starts leftmost, with the first alternative that fits there.
pattern_search(groups, text) ==
    LET fits(i, a) ==
            /\ starts_at(text, i, groups[1][a])
            /\ rest_end(groups, 2, text, i + Len(groups[1][a])) > 0
        starts == {i \in 1..Len(text) : \E a \in 1..Len(groups[1]) : fits(i, a)}
        i == least(starts)
        a == least({b \in 1..Len(groups[1]) : fits(i, b)})
    IN  IF starts = {} THEN NoneValue
        ELSE SubSeq(text, i, rest_end(groups, 2, text, i + Len(groups[1][a])) - 1)

\* for pattern in patterns: match = re.search(pattern, text); if match: break
RECURSIVE first_match(_, _, _)
first_match(patterns, k, text) ==
    IF k > Len(patterns) THEN NoneValue
    ELSE IF pattern_search(patterns[k], text) # NoneValue
    THEN pattern_search(patterns[k], text)
    ELSE first_match(patterns, k + 1, text)

\* helpers.estimate_business_impact(text, customer_role); customer_role is a
\* str or NoneValue for None.
estimate_business_impact(text, customer_role) ==
    LET high == first_match(high_impact_patterns, 1, str_lower(text))
        medium == first_match(medium_impact_patterns, 1, str_lower(text))
    IN  IF high # NoneValue THEN <<"H","i","g","h"," ","i","m","p","a","c","t",":"," ">> \o high
        ELSE IF medium # NoneValue THEN <<"M","e","d","i","u","m"," ","i","m","p","a","c","t",":"," ">> \o medium
        ELSE IF /\ IsStr(customer_role)
                /\ Len(customer_role) > 0
                /\ any_in(high_impact_roles, str_lower(customer_role))
        THEN <<"P","o","t","e","n","t","i","a","l"," ","h","i","g","h"," ","i","m","p","a","c","t"," ","b","a","s","e","d"," ","o","n"," ","c","u","s","t","o","m","e","r"," ","r","o","l","e",":"," ">> \o customer_role
        ELSE << >>
\* ------------------------------------------------------------------------
\* response_agent.py
\* ------------------------------------------------------------------------

\* The template set is an ordered dict: a sequence of [key, template] in
\* insertion order, no key twice.
has_key(response_templates, key) ==
    \E i \in 1..Len(response_templates) : response_templates[i].key = key

template_of(response_templates, key) ==
    response_templates[CHOOSE i \in 1..Len(response_templates) :
                           response_templates[i].key = key].template

\* list(response_templates.keys())[0] raises IndexError on an empty dict.
select_raises(ticket_analysis, response_templates) ==
    /\ ~has_key(response_templates, ticket_analysis.suggested_response_type)
    /\ ~has_key(response_templates, ticket_analysis.category)
    /\ Len(response_templates) = 0

\* Determine which template to use.
select_template_key(ticket_analysis, response_templates) ==
    IF has_key(response_templates, ticket_analysis.suggested_response_type)
    THEN ticket_analysis.suggested_response_type
    ELSE IF has_key(response_templates, ticket_analysis.category)
    THEN ticket_analysis.category
    ELSE response_templates[1].key

\* any(word in point.lower() for point in key_points)
any_point_has(word, key_points) ==
    \E k \in 1..Len(key_points) : str_in(word, str_lower(key_points[k]))

\* any(word in point for point in key_points)
any_point_has_exact(word, key_points) ==
    \E k \in 1..Len(key_points) : str_in(word, key_points[k])

\* The fixed paragraphs of the synthesizers are kept by their opening words.
_generate_access_response_vars(ticket_analysis) ==
    (<<"f","e","a","t","u","r","e">> :>
        (IF any_point_has(<<"d","a","s","h","b","o","a","r","d">>, ticket_analysis.key_points) THEN <<"a","d","m","i","n"," ","d","a","s","h","b","o","a","r","d">>
         ELSE IF any_point_has(<<"l","o","g","i","n">>, ticket_analysis.key_points) THEN <<"l","o","g","i","n"," ","s","y","s","t","e","m">>
         ELSE <<"s","y","s","t","e","m">>))
    @@ (<<"d","i","a","g","n","o","s","i","s">> :>
        (IF any_point_has_exact(<<"4","0","3">>, ticket_analysis.key_points)
         THEN <<"I","t"," ","a","p","p","e","a","r","s"," ","y","o","u","'","r","e"," ","e","n","c","o","u","n","t","e","r","i","n","g"," ","a"," ","4","0","3"," ","e","r","r","o","r">>
         ELSE <<"B","a","s","e","d"," ","o","n"," ","y","o","u","r"," ","d","e","s","c","r","i","p","t","i","o","n">>))
    @@ (<<"r","e","s","o","l","u","t","i","o","n","_","s","t","e","p","s">> :> <<"P","l","e","a","s","e"," ","t","r","y"," ","t","h","e"," ","f","o","l","l","o","w","i","n","g"," ","s","t","e","p","s",":">>)
    @@ (<<"p","r","i","o","r","i","t","y","_","l","e","v","e","l">> :> (IF ticket_analysis.priority >= 3 THEN <<"H","I","G","H">> ELSE <<"M","E","D","I","U","M">>))
    @@ (<<"e","t","a">> :>
        (IF ticket_analysis.priority >= 3 THEN <<"T","o","d","a","y"," ","(","w","i","t","h","i","n"," ","2","-","3"," ","h","o","u","r","s",")">>
         ELSE <<"W","i","t","h","i","n"," ","2","4"," ","h","o","u","r","s">>))

billing_topic_of(key_points) ==
    IF any_point_has(<<"c","y","c","l","e">>, key_points) THEN <<"b","i","l","l","i","n","g"," ","c","y","c","l","e">>
    ELSE IF any_point_has(<<"i","n","v","o","i","c","e">>, key_points) THEN <<"i","n","v","o","i","c","e">>
    ELSE IF any_point_has(<<"p","a","y","m","e","n","t">>, key_points) THEN <<"p","a","y","m","e","n","t">>
    ELSE <<"b","i","l","l","i","n","g"," ","i","n","q","u","i","r","y">>

_generate_billing_response_vars(ticket_analysis) ==
    (<<"b","i","l","l","i","n","g","_","t","o","p","i","c">> :> billing_topic_of(ticket_analysis.key_points))
    @@ (<<"e","x","p","l","a","n","a","t","i","o","n">> :>
        (IF billing_topic_of(ticket_analysis.key_points) = <<"b","i","l","l","i","n","g"," ","c","y","c","l","e">>
         THEN <<"O","u","r"," ","s","y","s","t","e","m"," ","b","i","l","l","s"," ","f","r","o","m"," ","t","h","e"," ","1","5","t","h">>
         ELSE <<"O","u","r"," ","b","i","l","l","i","n","g"," ","s","y","s","t","e","m"," ","p","r","o","c","e","s","s","e","s"," ","p","a","y","m","e","n","t","s">>))
    @@ (<<"n","e","x","t","_","s","t","e","p","s">> :> <<"I","f"," ","y","o","u"," ","w","o","u","l","d"," ","l","i","k","e"," ","t","o",":">>)

\* [point for point in key_points if "feature" in point.lower() or "request" in point.lower()]
feature_points(key_points) ==
    SelectSeq(key_points,
              LAMBDA point : str_in(<<"f","e","a","t","u","r","e">>, str_lower(point))
                                 \/ str_in(<<"r","e","q","u","e","s","t">>, str_lower(point)))

feature_name_of(key_points) ==
    IF Len(feature_points(key_points)) > 0
    THEN str_replace(str_replace(feature_points(key_points)[1], <<"F","e","a","t","u","r","e"," ","r","e","q","u","e","s","t",":"," ">>, << >>),
                     <<"A","d","d","i","t","i","o","n"," ","r","e","q","u","e","s","t",":"," ">>, << >>)
    ELSE <<"t","h","e"," ","r","e","q","u","e","s","t","e","d"," ","f","u","n","c","t","i","o","n","a","l","i","t","y">>

_generate_feature_response_vars(ticket_analysis) ==
    (<<"f","e","a","t","u","r","e","_","n","a","m","e">> :> feature_name_of(ticket_analysis.key_points))
    @@ (<<"f","e","e","d","b","a","c","k">> :>
        (<<"T","h","a","n","k"," ","y","o","u"," ","f","o","r"," ","y","o","u","r"," ","s","u","g","g","e","s","t","i","o","n"," ","a","b","o","u","t"," ">>
         \o feature_name_of(ticket_analysis.key_points) \o <<".">>))
    @@ (<<"t","i","m","e","l","i","n","e">> :> <<"W","h","i","l","e"," ","I"," ","c","a","n","'","t"," ","p","r","o","v","i","d","e"," ","a"," ","s","p","e","c","i","f","i","c"," ","t","i","m","e","l","i","n","e">>)

_generate_technical_response_vars(ticket_analysis) ==
    (<<"i","s","s","u","e","_","d","e","s","c","r","i","p","t","i","o","n">> :>
        (IF any_point_has(<<"e","r","r","o","r">>, ticket_analysis.key_points)
         THEN <<"t","h","e"," ","e","r","r","o","r"," ","y","o","u"," ","e","n","c","o","u","n","t","e","r","e","d">>
         ELSE IF any_point_has(<<"c","r","a","s","h">>, ticket_analysis.key_points)
         THEN <<"t","h","e"," ","s","y","s","t","e","m"," ","c","r","a","s","h">>
         ELSE IF any_point_has(<<"s","l","o","w">>, ticket_analysis.key_points)
         THEN <<"t","h","e"," ","p","e","r","f","o","r","m","a","n","c","e"," ","i","s","s","u","e">>
         ELSE <<"t","h","e"," ","t","e","c","h","n","i","c","a","l"," ","i","s","s","u","e"," ","y","o","u"," ","r","e","p","o","r","t","e","d">>))
    @@ (<<"t","r","o","u","b","l","e","s","h","o","o","t","i","n","g">> :> <<"T","o"," ","h","e","l","p"," ","u","s"," ","r","e","s","o","l","v","e"," ","t","h","i","s"," ","i","s","s","u","e"," ","e","f","f","i","c","i","e","n","t","l","y">>)
    @@ (<<"s","o","l","u","t","i","o","n">> :> <<"O","n","c","e"," ","w","e"," ","h","a","v","e"," ","t","h","i","s"," ","i","n","f","o","r","m","a","t","i","o","n">>)
    @@ (<<"p","r","i","o","r","i","t","y","_","l","e","v","e","l">> :> (IF ticket_analysis.priority >= 3 THEN <<"H","I","G","H">> ELSE <<"S","T","A","N","D","A","R","D">>))

\* A generate_response that updates response_vars from every synthesizer, the
\* one of the ticket's category last.
response_vars_of_AllSynthesizers(ticket_analysis, context) ==
    (CASE ticket_analysis.category = "access" ->
              _generate_access_response_vars(ticket_analysis)
       [] ticket_analysis.category = "billing" ->
              _generate_billing_response_vars(ticket_analysis)
       [] ticket_analysis.category = "feature" ->
              _generate_feature_response_vars(ticket_analysis)
       [] OTHER -> _generate_technical_response_vars(ticket_analysis))
    @@ _generate_access_response_vars(ticket_analysis)
    @@ _generate_billing_response_vars(ticket_analysis)
    @@ _generate_feature_response_vars(ticket_analysis)
    @@ _generate_technical_response_vars(ticket_analysis)
    @@ (<<"n","a","m","e">> :> (IF "customer_name" \in DOMAIN context
                    THEN context["customer_name"] ELSE <<"C","u","s","t","o","m","e","r">>))

\* response_vars = {"name": customer_name}; response_vars.update(<synthesizer>)
response_vars_of(ticket_analysis, context) ==
    (CASE ticket_analysis.category = "access" ->
              _generate_access_response_vars(ticket_analysis)
       [] ticket_analysis.category = "billing" ->
              _generate_billing_response_vars(ticket_analysis)
       [] ticket_analysis.category = "feature" ->
              _generate_feature_response_vars(ticket_analysis)
       [] OTHER -> _generate_technical_response_vars(ticket_analysis))
    @@ (<<"n","a","m","e">> :> (IF "customer_name" \in DOMAIN context
                    THEN context["customer_name"] ELSE <<"C","u","s","t","o","m","e","r">>))

\* The base actions of the category, with the escalation of access and
\* technical tickets of priority >= 3.
category_actions(ticket_analysis) ==
    CASE ticket_analysis.category = "access" ->
             << "Verify user permissions in the admin system",
                "Check for recent security updates that might affect access" >>
             \o point_if(ticket_analysis.priority >= 3,
                    "Escalate to access control team if not resolved within 1 hour")
      [] ticket_analysis.category = "billing" ->
             << "Verify billing records",
                "Consider offering billing adjustments if appropriate" >>
      [] ticket_analysis.category = "feature" ->
             << "Log feature request in product backlog",
                "Check with product team about similar planned features" >>
      [] OTHER ->
             << "Document the issue in internal knowledge base",
                "Check for similar recent technical issues" >>
             \o point_if(ticket_analysis.priority >= 3,
                    "Escalate to technical specialists if not resolved within 2 hours")

\* The approval test with >= 3 in place of == 4.
requires_approval_of_FromHigh(ticket_analysis) == ticket_analysis.priority >= 3

\* if ticket_analysis.priority.value == 4
requires_approval_of(ticket_analysis) == ticket_analysis.priority = 4

\* The sentiment test with <= in place of <.
very_negative_AtMost(sentiment) == 2 * sentiment.num <= 0 - sentiment.den

\* ticket_analysis.sentiment < -0.5, on the fraction num/den (den > 0)
very_negative(sentiment) == 2 * sentiment.num < 0 - sentiment.den

suggested_actions_of(ticket_analysis) ==
    category_actions(ticket_analysis)
    \o point_if(requires_approval_of(ticket_analysis),
                "Supervisory review required due to priority")
    \o point_if(very_negative(ticket_analysis.sentiment),
                "Follow up personally due to customer sentiment")

\* Confidence scores are counted in tenths: 8 is 0.8.
default_confidence == 8

\* The ambiguity test with < in place of <=.
ambiguity_penalty_Strict(ticket_analysis) ==
    IF Len(ticket_analysis.key_points) < 1 THEN 2 ELSE 0

\* if len(ticket_analysis.key_points) <= 1: confidence_score -= 0.2
ambiguity_penalty(ticket_analysis) == IF Len(ticket_analysis.key_points) <= 1 THEN 2 ELSE 0

\* if ticket_analysis.sentiment < -0.5: confidence_score -= 0.1
sentiment_penalty(ticket_analysis) == IF very_negative(ticket_analysis.sentiment) THEN 1 ELSE 0

max_of(a, b) == IF a >= b THEN a ELSE b

min_of(a, b) == IF a <= b THEN a ELSE b

\* max(0.1, min(confidence_score, 1.0))
clamp_confidence(confidence_score) == max_of(1, min_of(confidence_score, 10))

confidence_of(ticket_analysis) ==
    clamp_confidence(default_confidence - ambiguity_penalty(ticket_analysis)
                         - sentiment_penalty(ticket_analysis))

\* re.findall(r'\{([^}]+)\}', template), scanning from position i: a match
\* starts at a "{" that is followed by at least one character other than "}"
\* and then by "}"; the scan goes on after the match.
RECURSIVE find_placeholders(_, _)
find_placeholders(template, i) ==
    LET opening == {j \in i..Len(template) :
                       /\ template[j] = "{"
                       /\ j + 2 <= Len(template)
                       /\ template[j + 1] # "}"
                       /\ \E c \in (j + 2)..Len(template) : template[c] = "}"}
        first == least(opening)
        close == least({c \in (first + 2)..Len(template) : template[c] = "}"})
    IN  IF opening = {} THEN << >>
        ELSE << SubSeq(template, first + 1, close - 1) >>
                 \o find_placeholders(template, close + 1)

\* str.replace raises TypeError when the value is no str.
fill_raises(template, variables) ==
    \/ ~IsStr(template)
    \/ LET placeholders == find_placeholders(template, 1)
       IN  \E k \in 1..Len(placeholders) :
              /\ placeholders[k] \in DOMAIN variables
              /\ ~IsStr(variables[placeholders[k]])

\* The loop of _fill_template over placeholders[k..]
RECURSIVE fill_from(_, _, _, _)
fill_from(filled_template, placeholders, k, variables) ==
    IF k > Len(placeholders) THEN filled_template
    ELSE fill_from(
             str_replace(filled_template,
                         << "{" >> \o placeholders[k] \o << "}" >>,
                         IF placeholders[k] \in DOMAIN variables
                         THEN variables[placeholders[k]]
                         ELSE << "[" >> \o placeholders[k] \o << "]" >>),
             placeholders, k + 1, variables)

_fill_template(template, variables) ==
    fill_from(template, find_placeholders(template, 1), 1, variables)

\* ResponseAgent.generate_response: [raised |-> TRUE] or the ResponseSuggestion.
generate_response(ticket_analysis, response_templates, context) ==
    IF select_raises(ticket_analysis, response_templates) THEN [raised |-> TRUE]
    ELSE
    LET template_key == select_template_key(ticket_analysis, response_templates)
        template == template_of(response_templates, template_key)
        response_vars == response_vars_of(ticket_analysis, context)
    IN  IF fill_raises(template, response_vars) THEN [raised |-> TRUE]
        ELSE [raised |-> FALSE,
              response_text |-> _fill_template(template, response_vars),
              confidence_score |-> confidence_of(ticket_analysis),
              requires_approval |-> requires_approval_of(ticket_analysis),
              suggested_actions |-> suggested_actions_of(ticket_analysis)]

\* ------------------------------------------------------------------------
\* ticket_processor.py
\* ------------------------------------------------------------------------

\* Python's None where an object (a TicketAnalysis, a ResponseSuggestion, a
\* dict) is expected.
None == [none |-> TRUE]

\* TicketResolution.error = None
NoError == "<None>"

\* The alternatives of the signature pattern of _build_context.
signature_words == << <<"R","e","g","a","r","d","s">>, <<"T","h","a","n","k","s">>, <<"B","e","s","t"," ","r","e","g","a","r","d","s">>, <<"S","i","n","c","e","r","e","l","y">> >>

\* re.search(r"(?:w1|w2|...),?\s*(.*?)(?:\n|$)", text) finds a match
signature_found(words, text) ==
    \E i \in 1..Len(text) : \E k \in 1..Len(words) : starts_at(text, i, words[k])

\* group(1) of the leftmost match: after the first alternative that matches at
\* the leftmost position, an optional comma and all whitespace are skipped and
\* the capture runs to the next newline or to the end of the text.
signature_capture(words, text) ==
    LET i == least({p \in 1..Len(text) :
                       \E k \in 1..Len(words) : starts_at(text, p, words[k])})
        word == words[least({k \in 1..Len(words) : starts_at(text, i, words[k])})]
        j0 == i + Len(word)
        j1 == IF j0 <= Len(text) /\ text[j0] = "," THEN j0 + 1 ELSE j0
        j2 == least({p \in j1..(Len(text) + 1) :
                        p = Len(text) + 1 \/ text[p] \notin Whitespace})
        e == least({p \in j2..(Len(text) + 1) : p = Len(text) + 1 \/ text[p] = "\n"})
    IN  SubSeq(text, j2, e - 1)

\* customer_info.get(key, "Unknown")
get_or_unknown(customer_info, key) ==
    IF key \in DOMAIN customer_info THEN customer_info[key] ELSE <<"U","n","k","n","o","w","n">>

\* re.search raises TypeError when ticket.content is no str.
build_context_raises(ticket) == ~IsStr(ticket.content)

\* TicketProcessor._build_context
_build_context(ticket) ==
    [ticket_id |-> ticket.id,
     ticket_subject |-> ticket.subject,
     customer_name |->
         IF signature_found(signature_words, ticket.content)
         THEN str_strip(signature_capture(signature_words, ticket.content))
         ELSE <<"C","u","s","t","o","m","e","r">>,
     customer_role |-> get_or_unknown(ticket.customer_info, "role"),
     customer_plan |-> get_or_unknown(ticket.customer_info, "plan"),
     company_size |-> get_or_unknown(ticket.customer_info, "company_size")]

\* The TicketAnalysis object that analyze_ticket returned.
as_analysis(r) ==
    [category |-> r.category,
     priority |-> r.priority,
     key_points |-> r.key_points,
     required_expertise |-> r.required_expertise,
     sentiment |-> r.sentiment,
     urgency_indicators |-> r.urgency_indicators,
     business_impact |-> r.business_impact,
     suggested_response_type |-> r.suggested_response_type]

\* The ResponseSuggestion object that generate_response returned.
as_response(r) ==
    [response_text |-> r.response_text,
     confidence_score |-> r.confidence_score,
     requires_approval |-> r.requires_approval,
     suggested_actions |-> r.suggested_actions]

\* ------------------------------------------------------------------------
\* Inputs
\* ------------------------------------------------------------------------

\* The lines a ticket body is made of.
Fragments ==
    { <<"4","0","3"," ","o","n"," ","L","o","g","i","n">>, <<"i","n","v","o","i","c","e">>, <<"f","e","a","t","u","r","e"," ","r","e","q","u","e","s","t">>, <<"A","S","A","P">>, <<"p","a","y","r","o","l","l">>, <<"s","a","l","e","s">>,
      <<"e","r","r","o","r">>, <<"T","h","a","n","k","s",",","\n","A","l">> }

RECURSIVE join_lines(_, _)
join_lines(lines, k) ==
    IF k > Len(lines) THEN << >>
    ELSE IF k = Len(lines) THEN lines[k]
    ELSE lines[k] \o << "\n" >> \o join_lines(lines, k + 1)

Bodies ==
    {join_lines(lines, 1) : lines \in UNION {[1..n -> Fragments] : n \in 0..MaxFrags}}

\* customer_info dicts: empty, plain user, VIP on the Enterprise plan, plan
\* only, and a role that is no str.
CustomerInfos ==
    { << >>,
      [role |-> <<"U","s","e","r">>, plan |-> <<"B","a","s","i","c">>],
      [role |-> <<"S","a","l","e","s"," ","D","i","r","e","c","t","o","r">>, plan |-> <<"E","n","t","e","r","p","r","i","s","e">>, company_size |-> <<"2","5","0","+">>],
      [plan |-> <<"E","n","t","e","r","p","r","i","s","e">>],
      [role |-> NoneValue, plan |-> <<"E","n","t","e","r","p","r","i","s","e">>] }

\* SupportTicket objects; content may be no str.
Tickets ==
    {[id |-> "TKT-001", subject |-> "Support request", content |-> c, customer_info |-> ci] :
        c \in Bodies \cup {NoneValue}, ci \in CustomerInfos}

\* Template sets: the shipped one, a custom one without the default keys, and
\* an empty one.  The templates are kept by their placeholders.
ShippedTemplates ==
    << [key |-> "access_issue",
        template |-> <<"H","e","l","l","o"," ","{","n","a","m","e","}",",","\n","{","f","e","a","t","u","r","e","}","\n","{","d","i","a","g","n","o","s","i","s","}","\n","{","r","e","s","o","l","u","t","i","o","n","_","s","t","e","p","s","}","\n","P","r","i","o","r","i","t","y"," ","S","t","a","t","u","s",":"," ","{","p","r","i","o","r","i","t","y","_","l","e","v","e","l","}","\n","E","s","t","i","m","a","t","e","d"," ","R","e","s","o","l","u","t","i","o","n",":"," ","{","e","t","a","}">>],
       [key |-> "billing_inquiry",
        template |-> <<"H","i"," ","{","n","a","m","e","}",",","\n","{","b","i","l","l","i","n","g","_","t","o","p","i","c","}","\n","{","e","x","p","l","a","n","a","t","i","o","n","}","\n","{","n","e","x","t","_","s","t","e","p","s","}">>],
       [key |-> "feature_request",
        template |-> <<"H","e","l","l","o"," ","{","n","a","m","e","}",",","\n","{","f","e","a","t","u","r","e","_","n","a","m","e","}","\n","{","f","e","e","d","b","a","c","k","}","\n","{","t","i","m","e","l","i","n","e","}">>],
       [key |-> "technical_issue",
        template |-> <<"H","e","l","l","o"," ","{","n","a","m","e","}",",","\n","{","i","s","s","u","e","_","d","e","s","c","r","i","p","t","i","o","n","}","\n","{","t","r","o","u","b","l","e","s","h","o","o","t","i","n","g","}","\n","{","s","o","l","u","t","i","o","n","}","\n","P","r","i","o","r","i","t","y"," ","S","t","a","t","u","s",":"," ","{","p","r","i","o","r","i","t","y","_","l","e","v","e","l","}">>],
       [key |-> "ambiguous_request",
        template |-> <<"H","e","l","l","o"," ","{","n","a","m","e","}",",","\n","{","q","u","e","s","t","i","o","n","s","}">>] >>

CustomTemplates ==
    << [key |-> "ambiguous_request", template |-> <<"H","e","l","l","o"," ","{","n","a","m","e","}",",","\n","{","q","u","e","s","t","i","o","n","s","}">>],
       [key |-> "billing", template |-> <<"H","i"," ","{","n","a","m","e","}",",","\n","{","b","i","l","l","i","n","g","_","t","o","p","i","c","}","\n","{","e","t","a","}">>] >>

TemplateSets == {ShippedTemplates, CustomTemplates, << >>}

\* ------------------------------------------------------------------------
\* State
\* ------------------------------------------------------------------------

VARIABLES
    response_templates,   \* TicketProcessor.response_templates
    ticket,               \* the argument of the current process_ticket call
    pc,                   \* where the current call stands
    context,              \* local variable context
    resolution,           \* local variable resolution, the value returned
    elapsed,              \* time.time() - start_time, as last read
    priority_log,         \* local variable priority of analyze_ticket, rule by rule
    failed_step,          \* the step of the current call that raised, if any
    fill,                 \* a call of ResponseAgent._fill_template on its own
    earlier,              \* a resolution the caller has kept from an earlier call
    calls,                \* the locals of each of several interleaved calls
    session               \* st.session_state of app.py and the stage of its script run

\* State outside TicketProcessor.process_ticket and its locals.
aside == << fill, earlier, calls, session >>

vars ==
    << response_templates, ticket, pc, context, resolution, elapsed,
       priority_log, failed_step, aside >>

\* TicketResolution.__init__ defaults
new_resolution(ticket_id) ==
    [ticket_id |-> ticket_id,
     analysis |-> None,
     response |-> None,
     status |-> "pending",
     processing_time |-> 0,
     error |-> NoError]

\* TicketProcessor.__init__: no call has been made yet.
Init ==
    /\ response_templates \in TemplateSets
    /\ ticket = None
    /\ pc = "idle"
    /\ context = None
    /\ resolution = None
    /\ elapsed = 0
    /\ priority_log = << >>
    /\ failed_step = "none"
    /\ fill = None
    /\ earlier = None
    /\ calls = << >>
    /\ session = None

\* process_ticket is called: start_time = time.time(); resolution = TicketResolution(...)
Submit(t) ==
    /\ pc = "idle"
    /\ ticket' = t
    /\ elapsed' = 0
    /\ resolution' = new_resolution(t.id)
    /\ context' = None
    /\ priority_log' = << >>
    /\ failed_step' = "none"
    /\ pc' = "context"
    /\ UNCHANGED << aside, response_templates >>

\* A process_ticket without its except clause: the exception of step 1 escapes.
BuildContext_Escapes ==
    /\ pc = "context"
    /\ IF build_context_raises(ticket)
       THEN /\ failed_step' = "context"
            /\ pc' = "raised"
            /\ UNCHANGED context
       ELSE /\ context' = _build_context(ticket)
            /\ pc' = "analyze"
            /\ UNCHANGED failed_step
    /\ UNCHANGED << aside, response_templates, ticket, resolution, elapsed, priority_log >>

\* A _build_context that fills the defaults into the customer attributes of
\* the ticket (customer_info.setdefault(key, "Unknown")) instead of reading them.
BuildContext_SetsDefaults ==
    /\ pc = "context"
    /\ IF build_context_raises(ticket)
       THEN /\ failed_step' = "context"
            /\ pc' = "except"
            /\ UNCHANGED << context, ticket >>
       ELSE /\ context' = _build_context(ticket)
            /\ ticket' = [ticket EXCEPT !.customer_info =
                              [key \in {"role", "plan", "company_size"} |->
                                  get_or_unknown(ticket.customer_info, key)]]
            /\ pc' = "analyze"
            /\ UNCHANGED failed_step
    /\ UNCHANGED << aside, response_templates, resolution, elapsed, priority_log >>

\* Step 1: context = self._build_context(ticket); an exception goes to the
\* except clause of process_ticket.
BuildContext ==
    /\ pc = "context"
    /\ IF build_context_raises(ticket)
       THEN /\ failed_step' = "context"
            /\ pc' = "except"
            /\ UNCHANGED context
       ELSE /\ context' = _build_context(ticket)
            /\ pc' = "analyze"
            /\ UNCHANGED failed_step
    /\ UNCHANGED << aside, response_templates, ticket, resolution, elapsed, priority_log >>

\* An analyze_ticket wrapper without its try: the exception of the agent reaches
\* the except clause of process_ticket.
Analyze_Unwrapped ==
    /\ pc = "analyze"
    /\ LET r == analyze_ticket(ticket.content, ticket.customer_info)
       IN  /\ priority_log' = r.log
           /\ IF r.raised
              THEN /\ failed_step' = "analysis"
                   /\ pc' = "except"
                   /\ UNCHANGED resolution
              ELSE /\ resolution' = [resolution EXCEPT !.analysis = as_analysis(r)]
                   /\ pc' = "respond"
                   /\ UNCHANGED failed_step
    /\ UNCHANGED << aside, response_templates, ticket, context, elapsed >>

\* An early return that leaves without running the finally block.
Analyze_SkipsFinally ==
    /\ pc = "analyze"
    /\ LET r == analyze_ticket(ticket.content, ticket.customer_info)
       IN  /\ priority_log' = r.log
           /\ IF r.raised
              THEN /\ resolution' = [resolution EXCEPT !.analysis = None,
                                                       !.status = "error",
                                                       !.error = "Analysis failed"]
                   /\ failed_step' = "analysis"
                   /\ pc' = "returned"
                   /\ elapsed' \in 0..MaxElapsed
              ELSE /\ resolution' = [resolution EXCEPT !.analysis = as_analysis(r)]
                   /\ pc' = "respond"
                   /\ UNCHANGED << failed_step, elapsed >>
    /\ UNCHANGED << aside, response_templates, ticket, context >>

\* A process_ticket without step A: it goes on to the response whatever
\* analyze_ticket returned.
Analyze_NoNoneCheck ==
    /\ pc = "analyze"
    /\ LET r == analyze_ticket(ticket.content, ticket.customer_info)
       IN  /\ priority_log' = r.log
           /\ IF r.raised
              THEN /\ resolution' = [resolution EXCEPT !.analysis = None]
                   /\ failed_step' = "analysis"
              ELSE /\ resolution' = [resolution EXCEPT !.analysis = as_analysis(r)]
                   /\ UNCHANGED failed_step
    /\ pc' = "respond"
    /\ UNCHANGED << aside, response_templates, ticket, context, elapsed >>

\* Step 2 and step A: TicketProcessor.analyze_ticket turns an exception of the
\* agent into None; resolution.analysis = analysis; None returns "Analysis failed".
Analyze ==
    /\ pc = "analyze"
    /\ LET r == analyze_ticket(ticket.content, ticket.customer_info)
       IN  /\ priority_log' = r.log
           /\ IF r.raised
              THEN /\ resolution' = [resolution EXCEPT !.analysis = None,
                                                       !.status = "error",
                                                       !.error = "Analysis failed"]
                   /\ failed_step' = "analysis"
                   /\ pc' = "finally"
              ELSE /\ resolution' = [resolution EXCEPT !.analysis = as_analysis(r)]
                   /\ pc' = "respond"
                   /\ UNCHANGED failed_step
    /\ UNCHANGED << aside, response_templates, ticket, context, elapsed >>

\* A process_ticket without step B: the status is "resolved" whatever
\* generate_response returned.
Respond_NoNoneCheck ==
    /\ pc = "respond"
    /\ LET r == generate_response(resolution.analysis, response_templates, context)
       IN  IF r.raised
           THEN /\ resolution' = [resolution EXCEPT !.response = None,
                                                    !.status = "resolved"]
                /\ failed_step' = "response"
           ELSE /\ resolution' = [resolution EXCEPT !.response = as_response(r),
                                                    !.status = "resolved"]
                /\ UNCHANGED failed_step
    /\ pc' = "finally"
    /\ UNCHANGED << aside, response_templates, ticket, context, elapsed, priority_log >>

\* A generate_response wrapper without its try: the exception of the agent
\* reaches the except clause of process_ticket.
Respond_Unwrapped ==
    /\ pc = "respond"
    /\ LET r == generate_response(resolution.analysis, response_templates, context)
       IN  IF r.raised
           THEN /\ failed_step' = "response"
                /\ pc' = "except"
                /\ UNCHANGED resolution
           ELSE /\ resolution' = [resolution EXCEPT !.response = as_response(r),
                                                    !.status = "resolved"]
                /\ pc' = "finally"
                /\ UNCHANGED failed_step
    /\ UNCHANGED << aside, response_templates, ticket, context, elapsed, priority_log >>

\* A generate_response that takes the template out of the template set
\* (response_templates.pop(template_key)) instead of reading it.
Respond_PopsTemplate ==
    /\ pc = "respond"
    /\ LET r == generate_response(resolution.analysis, response_templates, context)
       IN  IF r.raised
           THEN /\ resolution' = [resolution EXCEPT !.response = None,
                                                    !.status = "error",
                                                    !.error = "Response generation failed"]
                /\ failed_step' = "response"
                /\ UNCHANGED response_templates
           ELSE /\ resolution' = [resolution EXCEPT !.response = as_response(r),
                                                    !.status = "resolved"]
                /\ response_templates' =
                       SelectSeq(response_templates,
                                 LAMBDA entry :
                                     entry.key # select_template_key(resolution.analysis,
                                                                     response_templates))
                /\ UNCHANGED failed_step
    /\ pc' = "finally"
    /\ UNCHANGED << aside, ticket, context, elapsed, priority_log >>

\* Step 3, step B and step 4: TicketProcessor.generate_response turns an
\* exception of the agent into None; resolution.response = response; None
\* returns "Response generation failed", else the status is "resolved".
Respond ==
    /\ pc = "respond"
    /\ LET r == generate_response(resolution.analysis, response_templates, context)
       IN  IF r.raised
           THEN /\ resolution' = [resolution EXCEPT !.response = None,
                                                    !.status = "error",
                                                    !.error = "Response generation failed"]
                /\ failed_step' = "response"
           ELSE /\ resolution' = [resolution EXCEPT !.response = as_response(r),
                                                    !.status = "resolved"]
                /\ UNCHANGED failed_step
    /\ pc' = "finally"
    /\ UNCHANGED << aside, response_templates, ticket, context, elapsed, priority_log >>

\* An except clause that records the error and leaves the status as it is.
Except_ErrorOnly ==
    /\ pc = "except"
    /\ resolution' = [resolution EXCEPT
                          !.error = "Error: expected string or bytes-like object"]
    /\ pc' = "finally"
    /\ UNCHANGED << aside, response_templates, ticket, context, elapsed, priority_log,
                    failed_step >>

\* except Exception as e: the error is "Error: " and the text of the exception
\* with its traceback.
Except ==
    /\ pc = "except"
    /\ resolution' = [resolution EXCEPT !.status = "error",
                                        !.error = "Error: expected string or bytes-like object"]
    /\ pc' = "finally"
    /\ UNCHANGED << aside, response_templates, ticket, context, elapsed, priority_log,
                    failed_step >>

\* finally: resolution.processing_time = time.time() - start_time, then the
\* call returns resolution.  Time is counted from start_time = time.time() at
\* the entry of the call.
Finally ==
    /\ pc = "finally"
    /\ \E now \in 0..MaxElapsed :
          /\ elapsed' = now
          /\ resolution' = [resolution EXCEPT !.processing_time = now]
    /\ pc' = "returned"
    /\ UNCHANGED << aside, response_templates, ticket, context, priority_log, failed_step >>

\* The caller has taken the returned resolution; the locals of the call are gone.
Collect ==
    /\ pc = "returned"
    /\ ticket' = None
    /\ context' = None
    /\ resolution' = None
    /\ elapsed' = 0
    /\ priority_log' = << >>
    /\ failed_step' = "none"
    /\ pc' = "idle"
    /\ UNCHANGED << aside, response_templates >>

Next ==
    \/ \E t \in Tickets : Submit(t)
    \/ BuildContext
    \/ Analyze
    \/ Respond
    \/ Except
    \/ Finally
    \/ Collect

Spec == Init /\ [][Next]_vars


\* ------------------------------------------------------------------------
\* ResponseAgent._fill_template called on its own
\* ------------------------------------------------------------------------

\* Templates: well formed, with a field twice, without fields, and malformed.
FillTemplates ==
    { <<"H","i"," ","{","n","a","m","e","}",","," ","b","a","c","k"," ","{","e","t","a","}">>, <<"{","e","t","a","}",":"," ","{","n","a","m","e","}">>, <<"{","n","a","m","e","}"," ","a","n","d"," ","{","n","a","m","e","}">>, <<"n","o"," ","f","i","e","l","d","s">>,
      <<"{","}"," ","{","n","a","m","e">>, <<"{","a","{","b","}"," ","{","n","a","m","e","}">>, <<"{","x","}","{","n","a","m","e","}">>, <<"D","e","a","r"," ","{","n","a","m","e","}",",","\n","{","e","t","a","}","\n","{","t","e","a","m","}">> }

\* Variable maps from str to str: empty, partial, complete, and with a value
\* that reads as a placeholder.
FillVariables ==
    { << >>,
      (<<"n","a","m","e">> :> <<"A","l">>),
      (<<"n","a","m","e">> :> <<"A","l">>) @@ (<<"e","t","a">> :> <<"n","o","w">>),
      (<<"n","a","m","e">> :> <<"{","e","t","a","}">>) @@ (<<"e","t","a">> :> <<"n","o","w">>),
      (<<"n","a","m","e">> :> <<"{","x","}">>),
      (<<"n","a","m","e">> :> <<"A","l">>) @@ (<<"t","e","a","m">> :> <<"{","n","a","m","e","}">>) }

\* _fill_template(template, variables) is called: filled_template = template,
\* and the loop is about to run over re.findall(...).
FillInit ==
    /\ response_templates = ShippedTemplates
    /\ ticket = None
    /\ pc = "idle"
    /\ context = None
    /\ resolution = None
    /\ elapsed = 0
    /\ priority_log = << >>
    /\ failed_step = "none"
    /\ earlier = None
    /\ calls = << >>
    /\ session = None
    /\ \E template \in FillTemplates, variables \in FillVariables :
          fill = [template |-> template,
                  variables |-> variables,
                  placeholders |-> find_placeholders(template, 1),
                  k |-> 1,
                  filled_template |-> template,
                  pc |-> "loop"]

\* One iteration of the for loop: placeholder k is replaced everywhere in
\* filled_template; a value that is no str makes str.replace raise.
FillStep ==
    /\ fill # None
    /\ fill.pc = "loop"
    /\ fill.k <= Len(fill.placeholders)
    /\ LET placeholder == fill.placeholders[fill.k]
       IN  IF placeholder \in DOMAIN fill.variables
                  /\ ~IsStr(fill.variables[placeholder])
           THEN fill' = [fill EXCEPT !.pc = "raised"]
           ELSE fill' = [fill EXCEPT
                    !.filled_template =
                        fill_from(fill.filled_template, << placeholder >>, 1,
                                  fill.variables),
                    !.k = fill.k + 1]
    /\ UNCHANGED << response_templates, ticket, pc, context, resolution, elapsed,
                    priority_log, failed_step, earlier, calls, session >>

\* return filled_template
FillReturn ==
    /\ fill # None
    /\ fill.pc = "loop"
    /\ fill.k > Len(fill.placeholders)
    /\ fill' = [fill EXCEPT !.pc = "returned"]
    /\ UNCHANGED << response_templates, ticket, pc, context, resolution, elapsed,
                    priority_log, failed_step, earlier, calls, session >>

FillNext == FillStep \/ FillReturn

FillSpec == FillInit /\ [][FillNext]_vars

\* ------------------------------------------------------------------------
\* A caller that processes tickets one after another and keeps a resolution
\* ------------------------------------------------------------------------

\* The tickets of the caller: each category, a failing analysis, a failing
\* context.
RepeatTickets ==
    {[id |-> "TKT-001", subject |-> "Support request", content |-> c, customer_info |-> ci] :
        c \in { <<"4","0","3"," ","o","n"," ","L","o","g","i","n","\n","A","S","A","P">>, <<"i","n","v","o","i","c","e">>, <<"f","e","a","t","u","r","e"," ","r","e","q","u","e","s","t","\n","T","h","a","n","k","s",",","\n","A","l">>,
                <<"p","a","y","r","o","l","l","\n","e","r","r","o","r">>, NoneValue },
        ci \in { << >>,
                 [role |-> <<"S","a","l","e","s"," ","D","i","r","e","c","t","o","r">>, plan |-> <<"E","n","t","e","r","p","r","i","s","e">>, company_size |-> <<"2","5","0","+">>],
                 [role |-> NoneValue, plan |-> <<"E","n","t","e","r","p","r","i","s","e">>] }}

\* The caller keeps the resolution that process_ticket has just returned.
Remember ==
    /\ pc = "returned"
    /\ earlier = None
    /\ earlier' = [ticket |-> ticket, resolution |-> resolution, between |-> FALSE]
    /\ UNCHANGED << response_templates, ticket, pc, context, resolution, elapsed,
                    priority_log, failed_step, fill, calls, session >>

\* The caller notes that a call for another ticket has returned since.
NoteOther ==
    /\ pc = "returned"
    /\ earlier # None
    /\ ~earlier.between
    /\ ticket # earlier.ticket
    /\ earlier' = [earlier EXCEPT !.between = TRUE]
    /\ UNCHANGED << response_templates, ticket, pc, context, resolution, elapsed,
                    priority_log, failed_step, fill, calls, session >>

RepeatNext ==
    \/ \E t \in RepeatTickets : Submit(t)
    \/ BuildContext
    \/ Analyze
    \/ Respond
    \/ Except
    \/ Finally
    \/ Collect
    \/ Remember
    \/ NoteOther

RepeatSpec == Init /\ [][RepeatNext]_vars

\* ------------------------------------------------------------------------
\* Tickets of one marker each
\* ------------------------------------------------------------------------

\* Bodies of one marker: a category word that is no key point, words of the
\* urgency vocabularies, runs of exclamation marks, time frames and deadlines;
\* bodies of several words of the sentiment lexicons; and bodies that name
\* the customer in a signature, a From field or an opening address; and
\* bodies that describe the impact on the business or name a critical
\* business function; and bodies signed with a name that reads as a
\* placeholder.
MarkerBodies ==
    { << >>, <<"a","c","c","e","s","s">>, <<"c","o","s","t">>, <<"f","e","a","t","u","r","e">>, <<"s","l","o","w">>, <<"u","r","g","e","n","t">>, <<"d","e","a","d","l","i","n","e">>, <<"q","u","i","c","k","l","y">>,
      <<"h","e","l","p","!","!">>, <<"H","e","l","p","!"," ","N","o","w","!","!">>, <<"t","o","d","a","y">>, <<"b","y"," ","t","o","m","o","r","r","o","w">>, <<"w","i","t","h","i","n"," ","2"," ","h","o","u","r","s">>,
      <<"n","e","e","d"," ","i","t"," ","b","y"," ","5","p","m">>, NoneValue,
      <<"T","h","a","n","k"," ","y","o","u",","," ","g","r","e","a","t">>, <<"P","l","e","a","s","e",":"," ","e","r","r","o","r",","," ","b","u","g",","," ","i","s","s","u","e">>, <<"P","l","e","a","s","e",":"," ","a"," ","b","a","d"," ","b","u","g",","," ","b","r","o","k","e","n"," ","a","n","d"," ","w","r","o","n","g">>,
      <<"B","r","o","k","e","n"," ","a","n","d"," ","w","r","o","n","g">>,
      <<"C","h","e","e","r","s",",","\n","B","o","b">>, <<"T","h","a","n","k","s",",","\n","D","r","."," ","A","l">>, <<"F","r","o","m",":"," ","A","l">>, <<"H","i"," ","S","u","p","p","o","r","t",","," ","A","l"," ","h","e","r","e">>,
      <<"o","u","t","a","g","e"," ","a","f","f","e","c","t","i","n","g"," ","s","a","l","e","s">>, <<"s","l","o","w","i","n","g"," ","o","u","r"," ","w","o","r","k">>, <<"p","r","o","d","u","c","t","i","o","n"," ","d","e","a","d","l","i","n","e">>,
      <<"P","a","y","r","o","l","l"," ","r","u","n">>, <<"l","o","s","t"," ","r","e","v","e","n","u","e">>, <<"I"," ","c","a","n","n","o","t"," ","w","o","r","k">>,
      <<"l","o","g","i","n","\n","T","h","a","n","k","s",",","\n","{","e","t","a","}">>, <<"T","h","a","n","k","s",",","\n","{","q","u","e","s","t","i","o","n","s","}">> }

\* Roles of the customer: one for each VIP marker, and others.
MarkerRoles ==
    { <<"C","E","O">>, <<"c","f","o">>, <<"C","t","o">>, <<"S","a","l","e","s"," ","D","i","r","e","c","t","o","r">>, <<"V","P"," ","S","a","l","e","s">>, <<"V","i","c","e"," ","P","r","e","s","i","d","e","n","t">>,
      <<"P","r","e","s","i","d","e","n","t">>, <<"H","e","a","d"," ","o","f"," ","I","T">>, <<"C","h","i","e","f"," ","o","f"," ","S","t","a","f","f">>, <<"O","f","f","i","c","e"," ","M","a","n","a","g","e","r">>, <<"I","n","t","e","r","n">>,
      <<"M","V","P"," ","t","e","s","t","e","r">> }

MarkerTickets ==
    {[id |-> "TKT-001", subject |-> "Support request", content |-> c, customer_info |-> ci] :
        c \in MarkerBodies, ci \in CustomerInfos}
    \cup
    {[id |-> "TKT-001", subject |-> "Support request", content |-> c,
      customer_info |-> [role |-> r]] :
        c \in { << >>, <<"c","o","s","t">>, <<"u","r","g","e","n","t">> }, r \in MarkerRoles}

\* Template sets that hold the shipped template of one category only, so that
\* a ticket of any other category is answered from it.
TechnicalOnlyTemplates == << ShippedTemplates[4] >>

AccessOnlyTemplates == << ShippedTemplates[1] >>

MarkerTemplateSets == TemplateSets \cup {TechnicalOnlyTemplates, AccessOnlyTemplates}

\* TicketProcessor.__init__ with one of these template sets.
MarkerInit ==
    /\ response_templates \in MarkerTemplateSets
    /\ ticket = None
    /\ pc = "idle"
    /\ context = None
    /\ resolution = None
    /\ elapsed = 0
    /\ priority_log = << >>
    /\ failed_step = "none"
    /\ fill = None
    /\ earlier = None
    /\ calls = << >>
    /\ session = None

MarkerNext ==
    \/ \E t \in MarkerTickets : Submit(t)
    \/ BuildContext
    \/ Analyze
    \/ Respond
    \/ Except
    \/ Finally
    \/ Collect

MarkerSpec == MarkerInit /\ [][MarkerNext]_vars

\* ------------------------------------------------------------------------
\* process_ticket as a function of the ticket and the template set
\* ------------------------------------------------------------------------

\* The resolution that a call made alone returns, with processing_time left
\* at its default.
process_ticket(t, templates) ==
    IF build_context_raises(t)
    THEN [new_resolution(t.id) EXCEPT
             !.status = "error",
             !.error = "Error: expected string or bytes-like object"]
    ELSE LET analysis == analyze_ticket(t.content, t.customer_info)
         IN  IF analysis.raised
             THEN [new_resolution(t.id) EXCEPT !.status = "error",
                                               !.error = "Analysis failed"]
             ELSE LET response == generate_response(as_analysis(analysis), templates,
                                                    _build_context(t))
                  IN  IF response.raised
                      THEN [new_resolution(t.id) EXCEPT
                               !.analysis = as_analysis(analysis),
                               !.status = "error",
                               !.error = "Response generation failed"]
                      ELSE [new_resolution(t.id) EXCEPT
                               !.analysis = as_analysis(analysis),
                               !.response = as_response(response),
                               !.status = "resolved"]

\* ------------------------------------------------------------------------
\* Several process_ticket calls, interleaved
\* ------------------------------------------------------------------------

\* The calls that run at once.
NumCalls == 2

Calls == 1..NumCalls

\* The tickets of the interleaved calls: two that resolve under different
\* names, one whose analysis fails, one whose context fails.
ConcTickets ==
    { [id |-> "TKT-001", subject |-> "Support request",
       content |-> <<"4","0","3"," ","o","n"," ","L","o","g","i","n","\n","T","h","a","n","k","s",",","\n","A","l">>,
       customer_info |-> [role |-> <<"S","a","l","e","s"," ","D","i","r","e","c","t","o","r">>, plan |-> <<"E","n","t","e","r","p","r","i","s","e">>,
                          company_size |-> <<"2","5","0","+">>]],
      [id |-> "TKT-002", subject |-> "Support request",
       content |-> <<"i","n","v","o","i","c","e">>, customer_info |-> << >>],
      [id |-> "TKT-003", subject |-> "Support request",
       content |-> <<"p","a","y","r","o","l","l","\n","e","r","r","o","r">>,
       customer_info |-> [role |-> NoneValue, plan |-> <<"E","n","t","e","r","p","r","i","s","e">>]],
      [id |-> "TKT-004", subject |-> "Support request",
       content |-> NoneValue, customer_info |-> << >>] }

\* Each call is about to be made; all share the template set.
ConcInit ==
    /\ response_templates \in TemplateSets
    /\ ticket = None
    /\ pc = "idle"
    /\ context = None
    /\ resolution = None
    /\ elapsed = 0
    /\ priority_log = << >>
    /\ failed_step = "none"
    /\ fill = None
    /\ earlier = None
    /\ calls = [c \in Calls |->
                   [pc |-> "idle", ticket |-> None, context |-> None, resolution |-> None]]
    /\ session = None

\* What a step of call c leaves alone: the processor, and the other calls
\* through calls' = [calls EXCEPT ![c] = ...].
ConcFrame ==
    UNCHANGED << response_templates, ticket, pc, context, resolution, elapsed,
                 priority_log, failed_step, fill, earlier, session >>

\* process_ticket is called for ticket t: resolution = TicketResolution(...)
CallSubmit(c, t) ==
    /\ calls[c].pc = "idle"
    /\ calls' = [calls EXCEPT ![c] = [pc |-> "context", ticket |-> t, context |-> None,
                                      resolution |-> new_resolution(t.id)]]
    /\ ConcFrame

\* A processor that keeps the context in an attribute (self.context), which
\* all calls share.
CallBuildContext_SharedContext(c) ==
    /\ calls[c].pc = "context"
    /\ calls' =
           IF build_context_raises(calls[c].ticket)
           THEN [calls EXCEPT ![c].pc = "except"]
           ELSE [d \in Calls |->
                    [calls[d] EXCEPT
                        !.context = _build_context(calls[c].ticket),
                        !.pc = IF d = c THEN "analyze" ELSE calls[d].pc]]
    /\ ConcFrame

\* Step 1 of call c.
CallBuildContext(c) ==
    /\ calls[c].pc = "context"
    /\ calls' = [calls EXCEPT ![c] =
                    IF build_context_raises(calls[c].ticket)
                    THEN [calls[c] EXCEPT !.pc = "except"]
                    ELSE [calls[c] EXCEPT !.context = _build_context(calls[c].ticket),
                                          !.pc = "analyze"]]
    /\ ConcFrame

\* Step 2 and step A of call c.
CallAnalyze(c) ==
    /\ calls[c].pc = "analyze"
    /\ LET r == analyze_ticket(calls[c].ticket.content, calls[c].ticket.customer_info)
       IN  calls' = [calls EXCEPT ![c] =
                        IF r.raised
                        THEN [calls[c] EXCEPT !.resolution.status = "error",
                                              !.resolution.error = "Analysis failed",
                                              !.pc = "finally"]
                        ELSE [calls[c] EXCEPT !.resolution.analysis = as_analysis(r),
                                              !.pc = "respond"]]
    /\ ConcFrame

\* Step 3, step B and step 4 of call c.
CallRespond(c) ==
    /\ calls[c].pc = "respond"
    /\ LET r == generate_response(calls[c].resolution.analysis, response_templates,
                                  calls[c].context)
       IN  calls' = [calls EXCEPT ![c] =
                        IF r.raised
                        THEN [calls[c] EXCEPT
                                 !.resolution.status = "error",
                                 !.resolution.error = "Response generation failed",
                                 !.pc = "finally"]
                        ELSE [calls[c] EXCEPT !.resolution.response = as_response(r),
                                              !.resolution.status = "resolved",
                                              !.pc = "finally"]]
    /\ ConcFrame

\* The except clause of call c.
CallExcept(c) ==
    /\ calls[c].pc = "except"
    /\ calls' = [calls EXCEPT ![c] =
                    [calls[c] EXCEPT
                        !.resolution.status = "error",
                        !.resolution.error = "Error: expected string or bytes-like object",
                        !.pc = "finally"]]
    /\ ConcFrame

\* The finally block and the return of call c.
CallFinally(c) ==
    /\ calls[c].pc = "finally"
    /\ \E now \in 0..MaxElapsed :
          calls' = [calls EXCEPT ![c] =
                       [calls[c] EXCEPT !.resolution.processing_time = now,
                                        !.pc = "returned"]]
    /\ ConcFrame

ConcNext ==
    \E c \in Calls :
        \/ \E t \in ConcTickets : CallSubmit(c, t)
        \/ CallBuildContext(c)
        \/ CallAnalyze(c)
        \/ CallRespond(c)
        \/ CallExcept(c)
        \/ CallFinally(c)

ConcSpec == ConcInit /\ [][ConcNext]_vars

\* ------------------------------------------------------------------------
\* helpers.py: extract_customer_name
\* ------------------------------------------------------------------------

\* The alternatives of the closing-signature pattern of extract_customer_name.
closing_words == << <<"R","e","g","a","r","d","s">>, <<"T","h","a","n","k","s">>, <<"B","e","s","t"," ","r","e","g","a","r","d","s">>, <<"S","i","n","c","e","r","e","l","y">>, <<"C","h","e","e","r","s">> >>

\* \s*(.*?)(?:\n|$) from position j: all whitespace is skipped and the capture
\* runs to the next newline or to the end of the text.
capture_from(text, j) ==
    LET j2 == least({p \in j..(Len(text) + 1) :
                        p = Len(text) + 1 \/ text[p] \notin Whitespace})
        e == least({p \in j2..(Len(text) + 1) : p = Len(text) + 1 \/ text[p] = "\n"})
    IN  SubSeq(text, j2, e - 1)

\* re.search(r"From:\s*(.*?)(?:\n|$)", text) finds a match
from_found(text) == str_in(<<"F","r","o","m",":">>, text)

\* group(1) of the leftmost match of the From pattern
from_capture(text) ==
    capture_from(text, least({p \in 1..Len(text) : starts_at(text, p, <<"F","r","o","m",":">>)}) + 5)

\* The alternatives of the opening-address pattern, in the order they are tried.
opening_words == << <<"H","i">>, <<"H","e","l","l","o">>, <<"D","e","a","r">> >>

\* The positions of the first line of the text, after the first len characters,
\* that hold "," or ".": where .*?(?:,|\.) can end.
opening_marks(text, len) ==
    {p \in (len + 1)..Len(text) :
        /\ text[p] \in {",", "."}
        /\ \A q \in (len + 1)..(p - 1) : text[q] # "\n"}

\* re.search(r"^(?:Hi|Hello|Dear).*?(?:,|\.)\s*(.*?)(?:\n|$)", text) finds a
\* match: the text starts with an opening word and its first line goes on
\* with "," or ".".
opening_found(text) ==
    \E k \in 1..Len(opening_words) :
        /\ starts_at(text, 1, opening_words[k])
        /\ opening_marks(text, Len(opening_words[k])) # {}

\* group(1) of that match, for the first opening word that matches
opening_capture(text) ==
    LET k == least({a \in 1..Len(opening_words) :
                       /\ starts_at(text, 1, opening_words[a])
                       /\ opening_marks(text, Len(opening_words[a])) # {}})
    IN  capture_from(text, least(opening_marks(text, Len(opening_words[k]))) + 1)

\* The titles of re.sub(r"^(Mr\.|Mrs\.|Ms\.|Dr\.|Prof\.)\s+", "", name)
titles == << <<"M","r",".">>, <<"M","r","s",".">>, <<"M","s",".">>, <<"D","r",".">>, <<"P","r","o","f",".">> >>

\* A title at the start of the name is removed with the whitespace after it,
\* when there is whitespace after it.
without_title(name) ==
    LET found == {k \in 1..Len(titles) :
                     /\ starts_at(name, 1, titles[k])
                     /\ Len(name) > Len(titles[k])
                     /\ name[Len(titles[k]) + 1] \in Whitespace}
        after == Len(titles[least(found)]) + 1
        rest == least({p \in after..(Len(name) + 1) :
                          p = Len(name) + 1 \/ name[p] \notin Whitespace})
    IN  IF found = {} THEN name ELSE SubSeq(name, rest, Len(name))

\* extract_customer_name: the first pattern that matches gives the name.
extract_customer_name(text) ==
    IF signature_found(closing_words, text)
    THEN without_title(str_strip(signature_capture(closing_words, text)))
    ELSE IF from_found(text)
    THEN without_title(str_strip(from_capture(text)))
    ELSE IF opening_found(text)
    THEN without_title(str_strip(opening_capture(text)))
    ELSE <<"C","u","s","t","o","m","e","r">>

\* ------------------------------------------------------------------------
\* app.py: the session state and the script run
\* ------------------------------------------------------------------------

\* Bound of the model: the number of tickets processed in one session (the
\* history of the code grows without limit).
MaxHistory == 2

\* SAMPLE_TICKETS, as SupportTicket objects
SampleTickets ==
    {
      [id |-> "TKT-001", subject |-> "Cannot access admin dashboard",
       content |->
           <<"\n","H","i"," ","S","u","p","p","o","r","t",",","\n","\n","S","i","n","c","e"," ","t","h","i","s"," ","m","o","r","n","i","n","g"," ","I"," ","c","a","n","'","t"," ","a","c","c","e","s","s"," ","t","h","e"," ","a","d","m","i","n"," ","d","a","s","h","b","o","a","r","d","."," ","I"," ","k","e","e","p"," ","g","e","t","t","i","n","g"," ","a"," ","4","0","3"," ","e","r","r","o","r",".","\n","\n","I"," ","n","e","e","d"," ","t","h","i","s"," ","f","i","x","e","d"," ","A","S","A","P"," ","a","s"," ","I"," ","n","e","e","d"," ","t","o"," ","p","r","o","c","e","s","s"," ","p","a","y","r","o","l","l"," ","t","o","d","a","y",".","\n","\n","T","h","a","n","k","s",",","\n","J","o","h","n"," ","S","m","i","t","h","\n","F","i","n","a","n","c","e"," ","D","i","r","e","c","t","o","r","\n">>,
       customer_info |-> [role |-> <<"A","d","m","i","n">>, plan |-> <<"E","n","t","e","r","p","r","i","s","e">>, company_size |-> <<"2","5","0","+">>]],
      [id |-> "TKT-002", subject |-> "Question about billing cycle",
       content |->
           <<"\n","H","e","l","l","o",",","\n","\n","O","u","r"," ","i","n","v","o","i","c","e"," ","s","h","o","w","s"," ","b","i","l","l","i","n","g"," ","f","r","o","m"," ","t","h","e"," ","1","5","t","h"," ","b","u","t"," ","w","e"," ","s","i","g","n","e","d"," ","u","p"," ","o","n"," ","t","h","e"," ","2","0","t","h",".","\n","\n","C","a","n"," ","y","o","u"," ","e","x","p","l","a","i","n"," ","h","o","w"," ","t","h","e"," ","p","r","o","-","r","a","t","i","n","g"," ","w","o","r","k","s","?","\n","\n","B","e","s","t"," ","r","e","g","a","r","d","s",",","\n","S","a","r","a","h"," ","J","o","n","e","s","\n">>,
       customer_info |-> [role |-> <<"B","i","l","l","i","n","g"," ","A","d","m","i","n">>, plan |-> <<"P","r","o","f","e","s","s","i","o","n","a","l">>, company_size |-> <<"5","0","-","2","4","9">>]],
      [id |-> "TKT-003", subject |-> "URGENT: System down during demo",
       content |->
           <<"\n","S","y","s","t","e","m"," ","c","r","a","s","h","e","d"," ","d","u","r","i","n","g"," ","c","u","s","t","o","m","e","r"," ","d","e","m","o","!","!","!","\n","\n","C","a","l","l"," ","m","e"," ","A","S","A","P",":"," ","+","1","-","5","5","5","-","0","1","2","3","\n","\n","-","S","e","n","t"," ","f","r","o","m"," ","m","y"," ","i","P","h","o","n","e","\n">>,
       customer_info |-> [role |-> <<"S","a","l","e","s"," ","D","i","r","e","c","t","o","r">>, plan |-> <<"E","n","t","e","r","p","r","i","s","e">>]],
      [id |-> "TKT-004", subject |-> "It's not working",
       content |->
           <<"N","o","t","h","i","n","g"," ","w","o","r","k","s","."," ","P","l","e","a","s","e"," ","h","e","l","p",".">>,
       customer_info |-> [role |-> <<"U","s","e","r">>, plan |-> <<"B","a","s","i","c">>]],
      [id |-> "TKT-005", subject |-> "Feature request: Export to CSV",
       content |->
           <<"\n","H","e","l","l","o"," ","S","u","p","p","o","r","t",",","\n","\n","W","e","'","d"," ","l","i","k","e"," ","t","o"," ","r","e","q","u","e","s","t"," ","a"," ","f","e","a","t","u","r","e"," ","t","o"," ","e","x","p","o","r","t"," ","o","u","r"," ","a","n","a","l","y","t","i","c","s"," ","d","a","t","a"," ","t","o"," ","C","S","V"," ","f","o","r","m","a","t",".","\n","C","u","r","r","e","n","t","l","y",","," ","w","e","'","r","e"," ","m","a","n","u","a","l","l","y"," ","c","o","p","y","i","n","g"," ","d","a","t","a"," ","w","h","i","c","h"," ","i","s"," ","t","i","m","e","-","c","o","n","s","u","m","i","n","g",".","\n","\n","I","s"," ","t","h","i","s"," ","o","n"," ","y","o","u","r"," ","r","o","a","d","m","a","p","?"," ","I","f"," ","n","o","t",","," ","c","o","u","l","d"," ","i","t"," ","b","e"," ","c","o","n","s","i","d","e","r","e","d"," ","f","o","r"," ","a"," ","f","u","t","u","r","e"," ","r","e","l","e","a","s","e","?","\n","\n","R","e","g","a","r","d","s",",","\n","L","i","s","a"," ","C","h","e","n","\n","P","r","o","d","u","c","t"," ","M","a","n","a","g","e","r","\n">>,
       customer_info |-> [role |-> <<"M","a","n","a","g","e","r">>, plan |-> <<"P","r","o","f","e","s","s","i","o","n","a","l">>, company_size |-> <<"5","0","-","2","4","9">>]] }

\* What the user has typed and selected in the form of the Submit tab: a new
\* ticket, sample TKT-001 typed in again field by field, sample TKT-004 typed
\* in again, and a form without subject or without content.  The form always
\* supplies role, plan and company_size.
FormTickets ==
    { CHOOSE sample \in SampleTickets : sample.id = "TKT-001",
      [id |-> "TKT-100", subject |-> "Slow reports",
       content |-> <<"T","h","e"," ","r","e","p","o","r","t","s"," ","p","a","g","e"," ","i","s"," ","s","l","o","w">>,
       customer_info |-> [role |-> <<"A","n","a","l","y","s","t">>, plan |-> <<"B","a","s","i","c">>, company_size |-> <<"1","-","4","9">>]],
      [id |-> "TKT-004", subject |-> "It's not working",
       content |-> <<"N","o","t","h","i","n","g"," ","w","o","r","k","s","."," ","P","l","e","a","s","e"," ","h","e","l","p",".">>,
       customer_info |-> [role |-> <<"U","s","e","r">>, plan |-> <<"B","a","s","i","c">>, company_size |-> <<"1","-","4","9">>]],
      [id |-> "TKT-101", subject |-> "",
       content |-> <<"H","e","l","p">>,
       customer_info |-> [role |-> <<>>, plan |-> <<"B","a","s","i","c">>, company_size |-> <<"1","-","4","9">>]],
      [id |-> "TKT-102", subject |-> "No content",
       content |-> << >>,
       customer_info |-> [role |-> <<>>, plan |-> <<"B","a","s","i","c">>, company_size |-> <<"1","-","4","9">>]] }

\* A TicketProcessor built over the given templates, as the session keeps it:
\* what its process_ticket returns for each ticket the page can hand to it,
\* with processing_time left at its default.
TicketProcessor(templates) ==
    [t \in SampleTickets \cup FormTickets |-> process_ticket(t, templates)]

\* Initialize session state: the first script run of a session has ended and
\* the page waits for the user.
AppInit ==
    /\ response_templates = ShippedTemplates
    /\ ticket = None
    /\ pc = "idle"
    /\ context = None
    /\ resolution = None
    /\ elapsed = 0
    /\ priority_log = << >>
    /\ failed_step = "none"
    /\ fill = None
    /\ earlier = None
    /\ calls = << >>
    /\ session = [processor |-> TicketProcessor(ShippedTemplates),
                  current_ticket |-> None,
                  resolution |-> None,
                  history |-> << >>,
                  processing |-> FALSE,
                  run |-> "waiting"]

\* What a script run of app.py leaves alone: all but the session.
AppFrame ==
    UNCHANGED << response_templates, ticket, pc, context, resolution, elapsed,
                 priority_log, failed_step, fill, earlier, calls >>

\* The user clicks "Load Sample": the script runs, the sidebar sets the
\* current ticket and clears the resolution, and the run goes on to the tabs.
AppLoadSample(sample) ==
    /\ session.run = "waiting"
    /\ session' = [session EXCEPT !.current_ticket = sample,
                                  !.resolution = None,
                                  !.run = "results"]
    /\ AppFrame

\* The user clicks "Process Ticket" (disabled while processing): without a
\* subject or content the form shows an error, else the ticket of the form
\* becomes current and processing is set; the run goes on to the Results tab.
AppProcessTicket(form) ==
    /\ session.run = "waiting"
    /\ ~session.processing
    /\ Len(session.history) < MaxHistory
    /\ IF form.subject = "" \/ Len(form.content) = 0
       THEN session' = [session EXCEPT !.run = "results"]
       ELSE session' = [session EXCEPT !.current_ticket = form,
                                       !.processing = TRUE,
                                       !.run = "results"]
    /\ AppFrame

\* The user changes another widget: the script runs with no button clicked.
AppInteract ==
    /\ session.run = "waiting"
    /\ session' = [session EXCEPT !.run = "results"]
    /\ AppFrame

\* The Results tab: with processing set and a current ticket, the ticket is
\* processed, the resolution stored, processing cleared, the history extended
\* and the script run again (st.rerun()); else the page is shown and waits.
AppResults ==
    /\ session.run = "results"
    /\ IF session.processing /\ session.current_ticket # None
       THEN \E now \in 0..MaxElapsed :
               LET result == [session.processor[session.current_ticket]
                                  EXCEPT !.processing_time = now]
               IN  session' = [session EXCEPT
                       !.resolution = result,
                       !.processing = FALSE,
                       !.history = Append(session.history,
                                          [ticket |-> session.current_ticket,
                                           resolution |-> result]),
                       !.run = "results"]
       ELSE session' = [session EXCEPT !.run = "waiting"]
    /\ AppFrame

AppNext ==
    \/ \E sample \in SampleTickets : AppLoadSample(sample)
    \/ \E form \in FormTickets : AppProcessTicket(form)
    \/ AppInteract
    \/ AppResults

AppSpec == AppInit /\ [][AppNext]_vars

\* The script run always comes to its end, and the user keeps loading samples
\* and submitting the form as long as the page allows it.
AppFairSpec ==
    /\ AppSpec
    /\ WF_vars(AppResults)
    /\ WF_vars(\E sample \in SampleTickets : AppLoadSample(sample))
    /\ WF_vars(\E form \in FormTickets : AppProcessTicket(form))
\* ------------------------------------------------------------------------
\* Properties of process_ticket
\* ------------------------------------------------------------------------

\* The resolution that the current call has returned.
Returned == pc = "returned"

\* The lower-cased body of the current ticket (a str in every state used below).
Body == str_lower(ticket.content)

\* C1: a returned Resolution with status "resolved" has analysis and response
\* set and error unset; one with status "error" has error set and analysis or
\* response unset.
C1_ResolutionShape ==
    Returned =>
        /\ resolution.status = "resolved" =>
               /\ resolution.analysis # None
               /\ resolution.response # None
               /\ resolution.error = NoError
        /\ resolution.status = "error" =>
               /\ resolution.error # NoError
               /\ (resolution.analysis = None \/ resolution.response = None)

\* An error resolution that still carries the analysis.
C1_Witness ==
    /\ Returned
    /\ resolution.status = "error"
    /\ resolution.analysis # None
    /\ resolution.response = None

\* C2: no exception escapes process_ticket; whichever step failed, the call
\* returns a Resolution with status "error" and a non-empty error description.
C2_NoEscape ==
    /\ pc # "raised"
    /\ pc \in {"finally", "returned"} /\ failed_step # "none" =>
           /\ resolution.status = "error"
           /\ resolution.error \notin {NoError, ""}

\* Context building failed on a body that is no str, and the call returned.
C2_Witness ==
    /\ Returned
    /\ failed_step = "context"
    /\ ~IsStr(ticket.content)
    /\ resolution.status = "error"

\* C3: when the Analysis Engine raises (a role that is no str), the returned
\* Resolution has status "error", error "Analysis failed", no analysis and no
\* response.
C3_AnalysisFailed ==
    Returned /\ (failed_step = "analysis"
                    \/ (IsStr(ticket.content) /\ vip_rule_raises(ticket.customer_info))) =>
        /\ resolution.status = "error"
        /\ resolution.error = "Analysis failed"
        /\ resolution.analysis = None
        /\ resolution.response = None

C3_Witness ==
    /\ Returned
    /\ IsStr(ticket.content)
    /\ "role" \in DOMAIN ticket.customer_info
    /\ ~IsStr(ticket.customer_info["role"])
    /\ resolution.error = "Analysis failed"

\* C4: when the Response Engine raises after a successful analysis, the
\* returned Resolution has status "error", error "Response generation failed",
\* no response, and the analysis computed for the ticket.
C4_ResponseFailed ==
    Returned /\ (failed_step = "response"
                    \/ (resolution.analysis # None /\ Len(response_templates) = 0)) =>
        /\ resolution.status = "error"
        /\ resolution.error = "Response generation failed"
        /\ resolution.response = None
        /\ resolution.analysis # None
        /\ resolution.analysis.category = categorize(Body)
        /\ resolution.analysis.priority = priority_log[Len(priority_log)]

C4_Witness ==
    /\ Returned
    /\ failed_step = "response"
    /\ response_templates = << >>
    /\ resolution.analysis # None
    /\ resolution.analysis.category = "billing"

\* C5: on every exit path the returned Resolution carries the time that
\* elapsed between the entry and the exit of the call.
C5_TimeRecorded == Returned => resolution.processing_time = elapsed

\* The early return of "Analysis failed", after a positive time.
C5_Witness ==
    /\ Returned
    /\ resolution.error = "Analysis failed"
    /\ resolution.processing_time > 0

\* ------------------------------------------------------------------------
\* Properties of analyze_ticket and generate_response
\* ------------------------------------------------------------------------

\* The current call has returned a resolution that carries an analysis.
Analysed == Returned /\ resolution.analysis # None

\* Some word of the set occurs in the lower-cased body.
BodyHas(words) == \E w \in words : str_in(w, Body)

\* C6: the category is the first match, on the lower-cased body, of access
\* {access, login, permission, 403, dashboard}, billing {bill, invoice,
\* payment, charge, pricing, cost, subscription}, feature {feature,
\* enhancement, improvement, add, suggestion, roadmap}, else technical.
C6_CategoryFirstMatch ==
    Analysed =>
        resolution.analysis.category =
            IF BodyHas({ <<"a","c","c","e","s","s">>, <<"l","o","g","i","n">>, <<"p","e","r","m","i","s","s","i","o","n">>, <<"4","0","3">>, <<"d","a","s","h","b","o","a","r","d">> })
            THEN "access"
            ELSE IF BodyHas({ <<"b","i","l","l">>, <<"i","n","v","o","i","c","e">>, <<"p","a","y","m","e","n","t">>, <<"c","h","a","r","g","e">>, <<"p","r","i","c","i","n","g">>,
                              <<"c","o","s","t">>, <<"s","u","b","s","c","r","i","p","t","i","o","n">> })
            THEN "billing"
            ELSE IF BodyHas({ <<"f","e","a","t","u","r","e">>, <<"e","n","h","a","n","c","e","m","e","n","t">>, <<"i","m","p","r","o","v","e","m","e","n","t">>, <<"a","d","d">>,
                              <<"s","u","g","g","e","s","t","i","o","n">>, <<"r","o","a","d","m","a","p">> })
            THEN "feature"
            ELSE "technical"

\* A body with "invoice" and "feature request" is classified as billing.
C6_Witness ==
    /\ Analysed
    /\ str_in(<<"i","n","v","o","i","c","e">>, Body)
    /\ str_in(<<"f","e","a","t","u","r","e"," ","r","e","q","u","e","s","t">>, Body)
    /\ resolution.analysis.category = "billing"

\* C7: the priority starts at MEDIUM, no rule lowers it, the Enterprise rule
\* leaves it as it is, and the returned priority is never LOW.
C7_PriorityNeverLowered ==
    /\ Len(priority_log) > 0 => priority_log[1] = MEDIUM
    /\ \A i \in 1..(Len(priority_log) - 1) : priority_log[i + 1] >= priority_log[i]
    /\ Len(priority_log) = 5 => priority_log[5] = priority_log[4]
    /\ Analysed =>
           /\ Len(priority_log) = 5
           /\ resolution.analysis.priority = priority_log[5]
           /\ resolution.analysis.priority # LOW

\* Urgency raised MEDIUM to HIGH, the critical function HIGH to URGENT, and the
\* VIP and Enterprise rules then ran on URGENT.
C7_Witness ==
    /\ Analysed
    /\ priority_log = << MEDIUM, HIGH, URGENT, URGENT, URGENT >>
    /\ is_vip(ticket.customer_info)
    /\ "plan" \in DOMAIN ticket.customer_info
    /\ ticket.customer_info["plan"] = <<"E","n","t","e","r","p","r","i","s","e">>

\* Text that adds urgency or impact signals to a body.
AddedSignals == { <<"U","R","G","E","N","T"," ","A","S","A","P">>, <<"p","a","y","r","o","l","l"," ","t","o","d","a","y">>, <<"h","e","l","p","!","!","!">> }

\* Text that adds a VIP marker to a role.
AddedVipMarkers == { <<"C","E","O">>, <<"M","a","n","a","g","e","r">> }

\* customer_info with the marker added to the role (the role set, when absent).
WithVipMarker(customer_info, marker) ==
    [key \in DOMAIN customer_info \cup {"role"} |->
        IF key # "role" THEN customer_info[key]
        ELSE IF "role" \in DOMAIN customer_info
             THEN customer_info["role"] \o << " " >> \o marker
             ELSE marker]

\* The priority analyze_ticket computes for a body and a customer_info.
PriorityOf(content, customer_info) == analyze_ticket(content, customer_info).priority

\* C8: a ticket that differs only by an added urgency / impact signal in the
\* body, or by a VIP marker added to the role, gets a priority at least as high.
C8_PriorityMonotone ==
    Analysed =>
        /\ \A extra \in AddedSignals :
               PriorityOf(ticket.content \o << "\n" >> \o extra, ticket.customer_info)
                   >= resolution.analysis.priority
        /\ \A marker \in AddedVipMarkers :
               PriorityOf(ticket.content, WithVipMarker(ticket.customer_info, marker))
                   >= resolution.analysis.priority

\* A MEDIUM ticket that an added signal makes URGENT and an added marker HIGH.
C8_Witness ==
    /\ Analysed
    /\ resolution.analysis.priority = MEDIUM
    /\ PriorityOf(ticket.content \o << "\n" >> \o <<"p","a","y","r","o","l","l"," ","t","o","d","a","y">>, ticket.customer_info)
           = URGENT
    /\ PriorityOf(ticket.content, WithVipMarker(ticket.customer_info, <<"C","E","O">>)) = HIGH

\* One of "payroll", "revenue", "cannot work" occurs in the lower-cased text.
NamesCriticalFunction(text) ==
    str_in(<<"p","a","y","r","o","l","l">>, str_lower(text)) \/ str_in(<<"r","e","v","e","n","u","e">>, str_lower(text))
        \/ str_in(<<"c","a","n","n","o","t"," ","w","o","r","k">>, str_lower(text))

\* C9 as claimed: when the assessed business-impact text names a critical
\* function the priority is URGENT and business_impact is "Critical business
\* function impacted"; otherwise business_impact is left as assessed.
C9_ImpactTextRule ==
    Analysed =>
        IF NamesCriticalFunction(_assess_business_impact(Body))
        THEN /\ resolution.analysis.priority = URGENT
             /\ resolution.analysis.business_impact = <<"C","r","i","t","i","c","a","l"," ","b","u","s","i","n","e","s","s"," ","f","u","n","c","t","i","o","n"," ","i","m","p","a","c","t","e","d">>
        ELSE resolution.analysis.business_impact = _assess_business_impact(Body)

\* C9 as amended: when the ticket body names a critical function the priority
\* is URGENT and business_impact is "Critical business function impacted";
\* otherwise business_impact is left as assessed.
C9_BodyRule ==
    Analysed =>
        IF NamesCriticalFunction(ticket.content)
        THEN /\ resolution.analysis.priority = URGENT
             /\ resolution.analysis.business_impact = <<"C","r","i","t","i","c","a","l"," ","b","u","s","i","n","e","s","s"," ","f","u","n","c","t","i","o","n"," ","i","m","p","a","c","t","e","d">>
        ELSE resolution.analysis.business_impact = _assess_business_impact(Body)

\* A body with "sales" and no critical function: the impact is assessed as
\* "Revenue impact", is left so, and the priority stays below URGENT.
C9_Witness ==
    /\ Analysed
    /\ ~NamesCriticalFunction(ticket.content)
    /\ resolution.analysis.business_impact = <<"R","e","v","e","n","u","e"," ","i","m","p","a","c","t">>
    /\ resolution.analysis.priority < URGENT

\* The current call has returned a resolution that carries a response.
Responded == Returned /\ resolution.response # None

\* C10: the confidence is 0.8, less 0.2 with at most one key point, less 0.1
\* with a sentiment below -0.5, clamped to [0.1, 1.0] (counted in tenths).
C10_Confidence ==
    Responded =>
        LET few == Len(resolution.analysis.key_points) <= 1
            negative == 2 * resolution.analysis.sentiment.num
                            < 0 - resolution.analysis.sentiment.den
            raw == 8 - (IF few THEN 2 ELSE 0) - (IF negative THEN 1 ELSE 0)
            clamped == IF raw < 1 THEN 1 ELSE IF raw > 10 THEN 10 ELSE raw
        IN  /\ resolution.response.confidence_score = clamped
            /\ resolution.response.confidence_score >= 1
            /\ resolution.response.confidence_score <= 10

\* Both reductions applied: one key point and a sentiment of -1.
C10_Witness ==
    /\ Responded
    /\ Len(resolution.analysis.key_points) = 1
    /\ resolution.analysis.sentiment = [num |-> -1, den |-> 1]
    /\ resolution.response.confidence_score = 5


\* ------------------------------------------------------------------------
\* Properties of the Response Engine
\* ------------------------------------------------------------------------

\* The key the selection order names: the suggested response type, else the
\* category name, else the first key of the template set.
SelectedKey ==
    IF has_key(response_templates, resolution.analysis.suggested_response_type)
    THEN resolution.analysis.suggested_response_type
    ELSE IF has_key(response_templates, resolution.analysis.category)
    THEN resolution.analysis.category
    ELSE response_templates[1].key

\* C11: for every template set, the selection of the template completes
\* without raising, and the response is rendered from the template keyed by
\* the suggested response type if present, else by the category name if
\* present, else from the first entry of the template set.
C11_TemplateSelection ==
    Analysed =>
        /\ failed_step # "response"
        /\ resolution.response # None
        /\ resolution.response.response_text =
               _fill_template(template_of(response_templates, SelectedKey),
                              response_vars_of(resolution.analysis, context))

\* The template with every placeholder replaced in one pass from position i:
\* by its value when one is supplied, by [placeholder] otherwise.
RECURSIVE RenderedInOnePass(_, _, _)
RenderedInOnePass(template, variables, i) ==
    LET opening == {j \in i..Len(template) :
                       /\ template[j] = "{"
                       /\ j + 2 <= Len(template)
                       /\ template[j + 1] # "}"
                       /\ \E c \in (j + 2)..Len(template) : template[c] = "}"}
        first == least(opening)
        close == least({c \in (first + 2)..Len(template) : template[c] = "}"})
        placeholder == SubSeq(template, first + 1, close - 1)
    IN  IF opening = {} THEN SubSeq(template, i, Len(template))
        ELSE SubSeq(template, i, first - 1)
                 \o (IF placeholder \in DOMAIN variables THEN variables[placeholder]
                     ELSE << "[" >> \o placeholder \o << "]" >>)
                 \o RenderedInOnePass(template, variables, close + 1)

\* No supplied value holds a brace.
ValuesWithoutBraces(variables) ==
    \A name \in DOMAIN variables :
        IsStr(variables[name]) =>
            ~str_in(<< "{" >>, variables[name]) /\ ~str_in(<< "}" >>, variables[name])

\* C12: for every template and every variable map _fill_template does not
\* raise, the text it returns has each {placeholder} replaced by the supplied
\* value, or by [placeholder] when none is supplied, and no {placeholder} of
\* the template is left in the text.
C12_SoftFill ==
    fill # None =>
        /\ fill.pc # "raised"
        /\ fill.pc = "returned" =>
               /\ fill.filled_template =
                      RenderedInOnePass(fill.template, fill.variables, 1)
               /\ ValuesWithoutBraces(fill.variables) =>
                      \A k \in 1..Len(fill.placeholders) :
                          ~str_in(<< "{" >> \o fill.placeholders[k] \o << "}" >>,
                                  fill.filled_template)

\* ------------------------------------------------------------------------
\* Properties of repeated and concurrent calls
\* ------------------------------------------------------------------------

\* The current call has returned for the ticket of the kept resolution.
SameTicketAgain == Returned /\ earlier # None /\ earlier.ticket = ticket

\* C13: a call with the same ticket and the same template set, whatever was
\* processed in between, yields the same status, category, priority, key
\* points and response text as the earlier call.
C13_SameResult ==
    SameTicketAgain =>
        /\ resolution.status = earlier.resolution.status
        /\ (resolution.analysis = None) <=> (earlier.resolution.analysis = None)
        /\ resolution.analysis # None =>
               /\ resolution.analysis.category = earlier.resolution.analysis.category
               /\ resolution.analysis.priority = earlier.resolution.analysis.priority
               /\ resolution.analysis.key_points = earlier.resolution.analysis.key_points
        /\ (resolution.response = None) <=> (earlier.resolution.response = None)
        /\ resolution.response # None =>
               resolution.response.response_text = earlier.resolution.response.response_text

\* A resolved ticket is processed again after a call for another ticket, at
\* another processing time.
C13_Witness ==
    /\ SameTicketAgain
    /\ earlier.between
    /\ resolution.status = "resolved"
    /\ resolution.analysis.category = "access"
    /\ resolution.processing_time # earlier.resolution.processing_time

\* ------------------------------------------------------------------------
\* Properties of the Analysis Engine on tickets of one marker
\* ------------------------------------------------------------------------

\* The key point an extractor adds when no marker of its category matched.
FallbackPoint(category) ==
    CASE category = "access" -> <<"G","e","n","e","r","a","l"," ","a","c","c","e","s","s"," ","i","s","s","u","e">>
      [] category = "billing" -> <<"G","e","n","e","r","a","l"," ","b","i","l","l","i","n","g"," ","q","u","e","s","t","i","o","n">>
      [] category = "feature" -> <<"G","e","n","e","r","a","l"," ","f","e","a","t","u","r","e"," ","r","e","q","u","e","s","t">>
      [] category = "technical" -> <<"T","e","c","h","n","i","c","a","l"," ","i","s","s","u","e">>

\* C14: every returned Analysis has at least one key point, the generic point
\* of its category only as the single key point, and the suggested response
\* type of its category.
C14_AnalysisShape ==
    Analysed =>
        /\ Len(resolution.analysis.key_points) > 0
        /\ (\E k \in 1..Len(resolution.analysis.key_points) :
               resolution.analysis.key_points[k] \in
                   {FallbackPoint(c) : c \in {"access", "billing", "feature", "technical"}})
               => resolution.analysis.key_points
                      = << FallbackPoint(resolution.analysis.category) >>
        /\ resolution.analysis.suggested_response_type =
               CASE resolution.analysis.category = "access" -> "access_issue"
                 [] resolution.analysis.category = "billing" -> "billing_inquiry"
                 [] resolution.analysis.category = "feature" -> "feature_request"
                 [] resolution.analysis.category = "technical" -> "technical_issue"

\* A billing ticket without any billing marker: the generic point alone.
C14_Witness ==
    /\ Analysed
    /\ resolution.analysis.category = "billing"
    /\ resolution.analysis.key_points = << <<"G","e","n","e","r","a","l"," ","b","i","l","l","i","n","g"," ","q","u","e","s","t","i","o","n">> >>
    /\ resolution.analysis.suggested_response_type = "billing_inquiry"

\* ------------------------------------------------------------------------
\* Properties of the response's approval flag and suggested actions
\* ------------------------------------------------------------------------

\* The action is one of the response's suggested actions.
Suggests(action) ==
    \E k \in 1..Len(resolution.response.suggested_actions) :
        resolution.response.suggested_actions[k] = action

\* C15: the response requires approval exactly when the priority is URGENT,
\* and suggests "Supervisory review required due to priority" exactly then.
C15_ApprovalIffUrgent ==
    Responded =>
        /\ resolution.response.requires_approval <=> resolution.analysis.priority = URGENT
        /\ Suggests("Supervisory review required due to priority")
               <=> resolution.analysis.priority = URGENT

\* The response to an URGENT ticket requires approval and suggests the review.
C15_Witness ==
    /\ Responded
    /\ resolution.analysis.priority = URGENT
    /\ resolution.response.requires_approval
    /\ Suggests("Supervisory review required due to priority")

\* ------------------------------------------------------------------------
\* Properties of interleaved calls
\* ------------------------------------------------------------------------

\* Call c has returned what a call made alone for its ticket returns.
AsAlone(c) ==
    LET alone == process_ticket(calls[c].ticket, response_templates)
    IN  /\ calls[c].resolution.ticket_id = alone.ticket_id
        /\ calls[c].resolution.status = alone.status
        /\ calls[c].resolution.analysis = alone.analysis
        /\ calls[c].resolution.response = alone.response
        /\ calls[c].resolution.error = alone.error

\* A step of one call leaves the locals of the other calls and the template
\* set as they are.
StepOfOneCall ==
    /\ response_templates' = response_templates
    /\ \A c \in Calls, d \in Calls :
           c # d /\ calls'[c] # calls[c] => calls'[d] = calls[d]

\* C16: however the calls are interleaved, each returns the Resolution that
\* processing its ticket alone returns, and no step of a call writes the
\* locals of another call or the shared template set.
C16_NoInterference ==
    /\ [](\A c \in Calls : calls[c].pc = "returned" => AsAlone(c))
    /\ [][StepOfOneCall]_vars

\* The first call has returned its resolved ticket while the second call,
\* for a ticket of another customer, is between its analysis and its response.
C16_Witness ==
    /\ calls # << >>
    /\ calls[1].pc = "returned"
    /\ calls[1].resolution.status = "resolved"
    /\ calls[2].pc = "respond"
    /\ calls[2].ticket # calls[1].ticket
    /\ calls[2].context.customer_name # calls[1].context.customer_name

\* ------------------------------------------------------------------------
\* Order of the stages of process_ticket
\* ------------------------------------------------------------------------

\* A step of process_ticket keeps the order of the stages: a call starts with
\* its context, the Analysis Engine is entered from there only, the Response
\* Engine only from an analysis that returned an Analysis, and both are left
\* for good once they have run.
StageStep ==
    /\ pc' = "context" => pc = "idle"
    /\ pc' = "analyze" => pc = "context"
    /\ pc = "analyze" =>
           /\ pc' \in {"respond", "finally"}
           /\ resolution'.analysis = None => pc' = "finally"
    /\ pc' = "respond" => pc = "analyze" /\ resolution'.analysis # None
    /\ pc = "respond" => pc' = "finally"

\* C17: in every call the Analysis Engine runs at most once, the Response
\* Engine runs at most once and only after the Analysis Engine returned an
\* Analysis, and never when the analysis failed.
C17_StageOrder == [][StageStep]_vars

\* The analysis failed and the call goes to its end without a response.
C17_Witness ==
    /\ pc = "finally"
    /\ failed_step = "analysis"
    /\ resolution.analysis = None
    /\ resolution.response = None

\* ------------------------------------------------------------------------
\* Properties of the priority rules on tickets of one marker
\* ------------------------------------------------------------------------

\* C18: whenever the body holds an urgency indicator of the urgency-indicator
\* extractor (a word of its vocabulary, a near-term deadline phrase, or two
\* exclamation marks in a row), the returned priority is at least HIGH.
C18_UrgencyEscalation ==
    Analysed /\ Len(identify_urgency_indicators(ticket.content)) > 0 =>
        resolution.analysis.priority >= HIGH

\* The customer attributes carry a role whose lower-cased text holds a VIP
\* marker.
HasVipRole ==
    /\ "role" \in DOMAIN ticket.customer_info
    /\ IsStr(ticket.customer_info["role"])
    /\ \E marker \in { <<"c","e","o">>, <<"c","f","o">>, <<"c","t","o">>, <<"d","i","r","e","c","t","o","r">>, <<"v","p">>, <<"v","i","c","e"," ","p","r","e","s","i","d","e","n","t">>,
                       <<"p","r","e","s","i","d","e","n","t">>, <<"h","e","a","d">>, <<"c","h","i","e","f">>, <<"m","a","n","a","g","e","r">> } :
           str_in(marker, str_lower(ticket.customer_info["role"]))

\* C19: with a VIP role the returned priority is at least HIGH whatever the
\* body; without a role (or without customer attributes) the analysis does
\* not fail and the VIP rule leaves the priority as it was.
C19_VipEscalation ==
    Returned /\ IsStr(ticket.content) =>
        /\ HasVipRole => Analysed /\ resolution.analysis.priority >= HIGH
        /\ "role" \notin DOMAIN ticket.customer_info =>
               /\ Analysed
               /\ priority_log[4] = priority_log[3]
               /\ resolution.analysis.priority = priority_log[3]

\* The VIP rule raised an empty ticket of an office manager from MEDIUM to HIGH.
C19_Witness ==
    /\ Analysed
    /\ ticket.content = << >>
    /\ ticket.customer_info = [role |-> <<"O","f","f","i","c","e"," ","M","a","n","a","g","e","r">>]
    /\ priority_log = << MEDIUM, MEDIUM, MEDIUM, HIGH, HIGH >>

\* ------------------------------------------------------------------------
\* Properties of the suggested actions by category
\* ------------------------------------------------------------------------

\* The fixed base actions of a category.
BaseActions(category) ==
    CASE category = "access" ->
             << "Verify user permissions in the admin system",
                "Check for recent security updates that might affect access" >>
      [] category = "billing" ->
             << "Verify billing records",
                "Consider offering billing adjustments if appropriate" >>
      [] category = "feature" ->
             << "Log feature request in product backlog",
                "Check with product team about similar planned features" >>
      [] category = "technical" ->
             << "Document the issue in internal knowledge base",
                "Check for similar recent technical issues" >>

\* The actions that escalate to a team within a time window.
EscalationActions ==
    { "Escalate to access control team if not resolved within 1 hour",
      "Escalate to technical specialists if not resolved within 2 hours" }

\* C20: in every category the suggested actions start with the base actions of
\* the category, and with a priority of HIGH or more they hold an escalation
\* action that names a team and a time window.
C20_ActionsByCategory ==
    Responded =>
        /\ SubSeq(resolution.response.suggested_actions, 1, 2)
               = BaseActions(resolution.analysis.category)
        /\ resolution.analysis.priority >= HIGH =>
               \E action \in EscalationActions : Suggests(action)

\* ------------------------------------------------------------------------
\* Properties of the sentiment score
\* ------------------------------------------------------------------------

\* The words of a lexicon that the lower-cased body contains.
LexiconWordsIn(lexicon) == {w \in {lexicon[k] : k \in 1..Len(lexicon)} : str_in(w, Body)}

\* C21: with p distinct positive and n distinct negative lexicon words in the
\* lower-cased body the sentiment is (p - n)/(p + n), it is exactly 0.0 when
\* p = n = 0, it lies in [-1, 1], and the response suggests the personal
\* follow-up exactly when the sentiment is below -0.5, that is when n > 3p.
C21_Sentiment ==
    Analysed =>
        LET p == Cardinality(LexiconWordsIn(positive_words))
            n == Cardinality(LexiconWordsIn(negative_words))
            sentiment == resolution.analysis.sentiment
        IN  /\ sentiment.den > 0
            /\ sentiment.num * (p + n) = (p - n) * sentiment.den
            /\ p + n = 0 => sentiment = [num |-> 0, den |-> 1]
            /\ 0 - sentiment.den <= sentiment.num /\ sentiment.num <= sentiment.den
            /\ Responded =>
                   (Suggests("Follow up personally due to customer sentiment")
                        <=> n > 3 * p)

\* A response with the follow-up for a body of one positive and four negative
\* words (-0.6).
C21_Witness ==
    /\ Responded
    /\ Cardinality(LexiconWordsIn(positive_words)) = 1
    /\ Cardinality(LexiconWordsIn(negative_words)) = 4
    /\ Suggests("Follow up personally due to customer sentiment")

\* ------------------------------------------------------------------------
\* Frame of process_ticket
\* ------------------------------------------------------------------------

\* A step that leaves the template set as it is and, from the entry of a call
\* to its return, the ticket of the call (id, subject, content, customer_info).
FrameStep ==
    /\ response_templates' = response_templates
    /\ pc # "idle" /\ pc' # "idle" => ticket' = ticket

\* C22: process_ticket never changes its inputs or the shared configuration:
\* through any sequence of calls, successful or failing, every step leaves the
\* ticket of the call and the template set of the processor as they were.
C22_Frame == [][FrameStep]_vars

\* A call has resolved a ticket with customer attributes after an earlier call
\* failed, and the ticket is the one that was submitted.
C22_Witness ==
    /\ Returned
    /\ resolution.status = "resolved"
    /\ earlier # None
    /\ earlier.resolution.status = "error"
    /\ ticket \in RepeatTickets
    /\ truthy(ticket.customer_info)
    /\ Len(response_templates) > 0

\* ------------------------------------------------------------------------
\* Properties of the context
\* ------------------------------------------------------------------------

\* C23: for every body, the customer name that process_ticket places in the
\* context is the name that extract_customer_name gives for the body: from
\* the closing signature (Cheers included), else the From field, else the
\* opening address, with a leading title removed, else "Customer".
C23_CustomerName ==
    context # None => context.customer_name = extract_customer_name(ticket.content)

\* ------------------------------------------------------------------------
\* Properties of the business impact
\* ------------------------------------------------------------------------

\* customer_info.get("role"): the role of the customer, NoneValue without one.
RoleOf(customer_info) ==
    IF "role" \in DOMAIN customer_info THEN customer_info["role"] ELSE NoneValue

\* C24: unless the critical-function rule overwrites it, the business impact
\* of an Analysis is what estimate_business_impact gives for the same body
\* and customer role: "High impact: <match>", else "Medium impact: <match>",
\* else the role-based text for a VIP role, else the empty text.
C24_BusinessImpact ==
    Analysed /\ ~critical_function(Body) =>
        resolution.analysis.business_impact =
            estimate_business_impact(ticket.content, RoleOf(ticket.customer_info))

\* ------------------------------------------------------------------------
\* Properties of the returned status
\* ------------------------------------------------------------------------

\* C25: a Resolution that process_ticket returns never has the status
\* "pending" it was created with: on every return path the status is
\* "resolved" or "error".
C25_NeverPending ==
    Returned =>
        /\ resolution.status # "pending"
        /\ resolution.status \in {"resolved", "error"}

\* The call has returned through the except clause, the one path on which no
\* step of the try block has set the status.
C25_Witness ==
    /\ Returned
    /\ failed_step = "context"
    /\ resolution.status = "error"
    /\ resolution.analysis = None
    /\ resolution.response = None
    /\ Len(response_templates) > 0

\* ------------------------------------------------------------------------
\* Properties of the URGENT priority
\* ------------------------------------------------------------------------

\* The phrases that name a critical business function.
CriticalPhrases == { <<"p","a","y","r","o","l","l">>, <<"r","e","v","e","n","u","e">>, <<"c","a","n","n","o","t"," ","w","o","r","k">> }

\* C26: the priority of an Analysis is URGENT exactly when the lower-cased
\* body contains "payroll", "revenue" or "cannot work"; urgency indicators, a
\* VIP role and the Enterprise plan yield at most HIGH; and a response
\* requires approval exactly for a body with one of the three phrases.
C26_UrgentIffCritical ==
    /\ Analysed =>
           /\ resolution.analysis.priority = URGENT <=> BodyHas(CriticalPhrases)
           /\ ~BodyHas(CriticalPhrases) => resolution.analysis.priority <= HIGH
    /\ Responded =>
           (resolution.response.requires_approval <=> BodyHas(CriticalPhrases))

\* A ticket with an urgency indicator from a VIP on the Enterprise plan, and
\* no critical phrase: HIGH, answered without approval.
C26_Witness ==
    /\ Responded
    /\ Len(resolution.analysis.urgency_indicators) > 0
    /\ is_vip(ticket.customer_info)
    /\ get_or_unknown(ticket.customer_info, "plan") = <<"E","n","t","e","r","p","r","i","s","e">>
    /\ ~BodyHas(CriticalPhrases)
    /\ resolution.analysis.priority = HIGH
    /\ ~resolution.response.requires_approval

\* ------------------------------------------------------------------------
\* Properties of the template fallback
\* ------------------------------------------------------------------------

\* The template set has no template under the suggested response type of the
\* analysis: the template is chosen by fallback.
FellBack ==
    /\ Analysed
    /\ Len(response_templates) > 0
    /\ ~has_key(response_templates, resolution.analysis.suggested_response_type)

\* The name and the fields that the synthesizer of the ticket's category gives.
OwnFields ==
    (<<"n","a","m","e">> :> context.customer_name)
    @@ (CASE resolution.analysis.category = "access" ->
                 _generate_access_response_vars(resolution.analysis)
          [] resolution.analysis.category = "billing" ->
                 _generate_billing_response_vars(resolution.analysis)
          [] resolution.analysis.category = "feature" ->
                 _generate_feature_response_vars(resolution.analysis)
          [] OTHER -> _generate_technical_response_vars(resolution.analysis))

\* The placeholders of the chosen template.
ChosenPlaceholders ==
    LET found == find_placeholders(template_of(response_templates, SelectedKey), 1)
    IN  {found[k] : k \in 1..Len(found)}

\* C27: when the template is chosen by fallback, the ticket is still resolved;
\* the text is the chosen template filled from the name and the fields of the
\* ticket's own category, and every placeholder that is none of these is
\* rendered as [placeholder]: no field of another category is filled in.
C27_FieldsFollowCategory ==
    FellBack =>
        /\ resolution.status = "resolved"
        /\ resolution.response # None
        /\ resolution.response.response_text =
               _fill_template(template_of(response_templates, SelectedKey), OwnFields)
        /\ \A placeholder \in ChosenPlaceholders \ DOMAIN OwnFields :
               /\ str_in(<< "[" >> \o placeholder \o << "]" >>,
                         resolution.response.response_text)
               /\ ~str_in(<< "{" >> \o placeholder \o << "}" >>,
                          resolution.response.response_text)

\* A technical ticket answered from the access template, the only one of the
\* set: priority_level is filled by the technical synthesizer, eta is not.
C27_Witness ==
    /\ FellBack
    /\ resolution.analysis.category = "technical"
    /\ response_templates = AccessOnlyTemplates
    /\ str_in(<<"P","r","i","o","r","i","t","y"," ","S","t","a","t","u","s",":"," ","S","T","A","N","D","A","R","D">>, resolution.response.response_text)
    /\ str_in(<<"E","s","t","i","m","a","t","e","d"," ","R","e","s","o","l","u","t","i","o","n",":"," ","[","e","t","a","]">>, resolution.response.response_text)

\* ------------------------------------------------------------------------
\* Properties of the substituted values
\* ------------------------------------------------------------------------

\* C28: a substituted value is inserted as it is: the response text is the
\* chosen template with each placeholder replaced once, by its value or by
\* [placeholder], and text of the form {x} inside a value (such as the
\* customer name taken from the body) is replaced by nothing.
C28_VerbatimValues ==
    Responded =>
        resolution.response.response_text =
            RenderedInOnePass(template_of(response_templates, SelectedKey),
                              response_vars_of(resolution.analysis, context), 1)

\* ------------------------------------------------------------------------
\* Properties of the technical response
\* ------------------------------------------------------------------------

\* C29: for a technical ticket whose body contains "slow" and neither "error"
\* nor "crash", the response rendered from a template with the field
\* issue_description describes the issue as "the performance issue".
C29_PerformanceIssue ==
    /\ Responded
    /\ resolution.analysis.category = "technical"
    /\ BodyHas({ <<"s","l","o","w">> })
    /\ ~BodyHas({ <<"e","r","r","o","r">>, <<"c","r","a","s","h">> })
    /\ <<"i","s","s","u","e","_","d","e","s","c","r","i","p","t","i","o","n">> \in ChosenPlaceholders
    => str_in(<<"t","h","e"," ","p","e","r","f","o","r","m","a","n","c","e"," ","i","s","s","u","e">>, resolution.response.response_text)

\* ------------------------------------------------------------------------
\* Properties of the session of app.py
\* ------------------------------------------------------------------------

\* The session shows the resolution of ticket t: processing is over, the
\* resolution is the one of t and the history holds it with t.
ProcessedInSession(t) ==
    /\ ~session.processing
    /\ session.resolution # None
    /\ session.resolution.ticket_id = t.id
    /\ \E k \in 1..Len(session.history) :
          /\ session.history[k].ticket = t
          /\ session.history[k].resolution = session.resolution

\* C30: every ticket that has become the current ticket, by Load Sample or
\* by Process Ticket, gets processed when the user keeps using the page: the
\* session comes to show its resolution, with processing false and an entry
\* for it in the history.
C30_CurrentTicketProcessed ==
    \A t \in SampleTickets \cup FormTickets :
        [](session.current_ticket = t => <>ProcessedInSession(t))

\* Every ticket submitted by Process Ticket gets processed.
SubmittedTicketProcessed ==
    \A t \in FormTickets :
        [](session.processing /\ session.current_ticket = t
           => <>ProcessedInSession(t))

\* Only tickets of the form's shape, with role, plan and company_size, are
\* ever marked for processing or entered in the history: a loaded sample
\* without company_size is never processed.
OnlyFormTicketsProcessed ==
    LET FormShaped(t) == DOMAIN t.customer_info = {"role", "plan", "company_size"}
    IN  /\ session.processing => FormShaped(session.current_ticket)
        /\ \A k \in 1..Len(session.history) : FormShaped(session.history[k].ticket)
=============================================================================
